---- MODULE Spec2Model ----
(***************************************************************************)
(* Checkpoint-and-rollback manager of ci-cd/rollback.py (RollbackManager). *)
(*                                                                         *)
(* The project tree, the process environment, the git repository and the   *)
(* rollback directory are the state; every public method is one action     *)
(* that runs the whole method, the outcome of each external command (file  *)
(* copy, npm, pip, git, build) being a nondeterministic input.             *)
(***************************************************************************)
EXTENDS Integers, Sequences, FiniteSets, TLC

(***************************************************************************)
(* Bounds of the exploration.                                              *)
(***************************************************************************)
MaxContent == 3        \* file contents are 1..MaxContent, 0 is "no such file"
MaxEnvVal == 1         \* values of environment variables, 0 is "unset"
MaxClock == 1          \* latest clock reading explored, in ticks
MaxCalls == 2          \* calls of the manager's methods explored
MaxEdits == 1          \* changes made to the project from outside
MaxCommits == 2        \* git commits that exist

MaxStoreCalls == 3     \* calls explored when only the store's methods are called
MaxRestoreCalls == 3   \* calls explored when nothing changes around the manager
MaxOverrideCalls == 2  \* calls explored when callers pass a strategy to execute_rollback
MaxRateCalls == 3      \* calls of check_rate_limit explored
MaxErrorCalls == 4      \* calls on ErrorHandling explored
MaxInstructions == 3    \* calls of execute_instruction explored
MaxToolCalls == 2       \* calls of _call_mcp_tool explored
MaxWall == 90          \* latest time.time() explored, in seconds
WallStep == 30         \* seconds that pass at once between two calls
MaxTasks == 2          \* execute_rollback coroutines on the event loop at once
MaxKeep == 2           \* largest keep_count explored

TicksPerSecond == 2    \* clock ticks within one second of checkpoint ids

(***************************************************************************)
(* Paths, strategies, environment variables.                               *)
(***************************************************************************)
critical_files ==
  << "package.json", "package-lock.json", "wrangler.toml",
     "wrangler.jsonc", "astro.config.mjs", "src/workers/main.js" >>

critical_patterns ==
  << "package.json", "wrangler.toml", "astro.config.mjs", "src/workers/main.js" >>

safe_env_keys ==
  << "NODE_ENV", "LOG_LEVEL", "BUILD_MODE", "CI", "GITHUB_ACTIONS", "RUNNER_OS" >>

RollbackStrategy == {"immediate", "graceful", "partial", "manual"}

Range(s) == {s[i] : i \in 1..Len(s)}

Paths == Range(critical_files) \cup {"requirements.txt"}

\* a variable outside the allow-list
EnvVars == Range(safe_env_keys) \cup {"API_TOKEN"}

\* what is changed from outside: a manifest that is also a critical file, a
\* critical file no pattern matches, one in a subdirectory, the other manifest;
\* a listed variable that is set, one that is not, one that is not listed
EditedPaths == {"package.json", "package-lock.json", "src/workers/main.js", "requirements.txt"}
EditedVars == {"NODE_ENV", "CI", "API_TOKEN"}

Contents == 1..MaxContent
NoFile == 0
NoCommit == 0          \* the empty string _get_current_commit falls back to
NoKey == -1            \* a key absent from dependencies_backup

(***************************************************************************)
(* The characters of a path, for Python's substring test "a in b".         *)
(***************************************************************************)
Chars(p) ==
  IF p = "package.json" THEN <<"p","a","c","k","a","g","e",".","j","s","o","n">> ELSE
  IF p = "package-lock.json" THEN <<"p","a","c","k","a","g","e","-","l","o","c","k",".","j","s","o","n">> ELSE
  IF p = "wrangler.toml" THEN <<"w","r","a","n","g","l","e","r",".","t","o","m","l">> ELSE
  IF p = "wrangler.jsonc" THEN <<"w","r","a","n","g","l","e","r",".","j","s","o","n","c">> ELSE
  IF p = "astro.config.mjs" THEN <<"a","s","t","r","o",".","c","o","n","f","i","g",".","m","j","s">> ELSE
  IF p = "src/workers/main.js" THEN <<"s","r","c","/","w","o","r","k","e","r","s","/","m","a","i","n",".","j","s">> ELSE
  IF p = "requirements.txt" THEN <<"r","e","q","u","i","r","e","m","e","n","t","s",".","t","x","t">> ELSE
  <<>>

StrContains(pat, s) ==
  \E i \in 0..(Len(s) - Len(pat)) : SubSeq(s, i + 1, i + Len(pat)) = pat

CriticalSet ==
  {p \in Paths : \E i \in 1..Len(critical_patterns) :
                    StrContains(Chars(critical_patterns[i]), Chars(p))}

\* faulty variant: every file of the backup list counts as critical
_is_critical_file_Listed(file_path) == file_path \in Range(critical_files)

_is_critical_file(file_path) == file_path \in CriticalSet

(***************************************************************************)
(* JSON text.  Content c of package.json is a text: c % 3 = 0 does not     *)
(* parse, otherwise it parses to the value c \div 3; json.dump writes the  *)
(* one text 3v+1 for value v, so a text with c % 3 = 2 is a different      *)
(* spelling (other indentation, trailing newline) of the same value.       *)
(***************************************************************************)
JsonValid(c) == c % 3 # 0
JsonLoad(c) == c \div 3
JsonDump(v) == 3 * v + 1

(***************************************************************************)
(* State.                                                                  *)
(***************************************************************************)
VARIABLES
  fs,                \* project tree: path -> content, NoFile when absent
  env,               \* os.environ: variable -> value, 0 when unset
  gitHead,           \* commit HEAD points to, NoCommit without a repository
  gitTrees,          \* commit -> tree (path -> content)
  now,               \* the earliest instant the clock can show next, in ticks
  checkpoints,       \* self.checkpoints: id -> checkpoint record
  disk,              \* rollback_dir: id -> [json, files] of the directories that exist
  guides,            \* the guides lying in rollback_dir itself, beside the checkpoints'
                     \* directories: id in the file's name -> guide
  rollback_history,  \* self.rollback_history
  last,              \* the last call: method, argument, exception, result, commands run
                     \* (of list and cleanup the result is the listing)
  calls,             \* number of calls made
  edits,             \* number of outside changes made
  loop,              \* the event loop: the execute_rollback coroutines on it, the one
                     \* running, and the routines run so far, each << task, routine >>
  rate_limits,       \* SecurityConfig._rate_limits: key -> the times of the admitted calls
  wall,              \* time.time(), in seconds
  log,               \* what the calls on SecurityConfig, ErrorHandling and MCPAgent did,
                     \* in order
  error_count,       \* ErrorHandling.error_count: exception class name -> count
  mcp_clients        \* MCPAgent.mcp_clients: the names of the servers whose client started

\* the project and its RollbackManager
managerVars == << fs, env, gitHead, gitTrees, now, checkpoints, disk, guides,
                 rollback_history, last, calls, edits, loop >>

vars == << fs, env, gitHead, gitTrees, now, checkpoints, disk, guides,
           rollback_history, last, calls, edits, loop, rate_limits, wall, log,
           error_count, mcp_clients >>

\* seconds of the clock: the number in "checkpoint_<seconds>"
Seconds(t) == t \div TicksPerSecond

UnknownId == -1        \* an id no checkpoint ever had

EmptyFiles == [p \in Range(critical_files) |-> NoFile]

\* restriction of a function
Restrict(f, S) == [x \in S |-> f[x]]

\* f with x mapped to v, x added to the domain when new
Put(f, x, v) == [y \in (DOMAIN f) \cup {x} |-> IF y = x THEN v ELSE f[y]]

Remove(f, x) == [y \in (DOMAIN f) \ {x} |-> f[y]]

\* at: the number of outside changes made before the call; from_file: the
\* call read its checkpoint from checkpoint.json, the index not holding it
NoLast ==
  [op |-> "none", id |-> UnknownId, raised |-> "", result |-> <<>>, ops |-> <<>>, at |-> 0,
   from_file |-> FALSE]

(***************************************************************************)
(* __init__                                                                *)
(***************************************************************************)
InitialTree(c) ==
  [p \in Paths |->
     IF p = "package.json" THEN c
     ELSE IF p \in {"package-lock.json", "wrangler.toml", "requirements.txt"} THEN 1
     ELSE NoFile]

\* a project without any of the critical files
PythonOnlyTree ==
  [p \in Paths |-> IF p = "requirements.txt" THEN 1 ELSE NoFile]

\* the coroutines that can be on the loop at once
Tasks == 1..MaxTasks

NoTask == 0

IdleLoop ==
  [tasks |-> [t \in Tasks |-> [state |-> "none", strategy |-> "", pc |-> 0]],
   current |-> NoTask, trace |-> << >>]

Init ==
  /\ loop = IdleLoop
  /\ rate_limits = << >>
  /\ wall = 0
  /\ log = << >>
  /\ error_count = << >>
  /\ mcp_clients = {}
  /\ fs \in {InitialTree(2), PythonOnlyTree}
  /\ env = [k \in EnvVars |-> IF k \in {"NODE_ENV", "API_TOKEN"} THEN 1 ELSE 0]
  /\ gitHead = 1
  /\ gitTrees = << fs >>
  /\ now = 0
  /\ checkpoints = << >>
  /\ disk = << >>
  /\ guides = << >>
  /\ rollback_history = << >>
  /\ last = NoLast
  /\ calls = 0
  /\ edits = 0

(***************************************************************************)
(* The world a method works on, threaded through its statements in order.  *)
(* ops is the list of external commands the call has run so far, each      *)
(* << command, argument, outcome >>.                                       *)
(***************************************************************************)
World ==
  [fs |-> fs, env |-> env, gitHead |-> gitHead, now |-> now,
   checkpoints |-> checkpoints, disk |-> disk, guides |-> guides, ops |-> << >>]

Ran(w, cmd, arg, outcome) == [w EXCEPT !.ops = Append(@, << cmd, arg, outcome >>)]

Outcomes == {"ok", "fail", "timeout"}   \* exit 0, exit non-zero, exception

Step(name, status, items, ref, info) ==
  [step |-> name, status |-> status, items |-> items, ref |-> ref, info |-> info]

(***************************************************************************)
(* _get_current_commit: the revision, or "" when git fails or times out.   *)
(***************************************************************************)
_get_current_commit(w, rev) == IF rev = "ok" THEN w.gitHead ELSE NoCommit

(***************************************************************************)
(* _backup_critical_files, _backup_dependencies, _backup_environment       *)
(***************************************************************************)
\* faulty variant: every critical path is recorded, existing or not
_backup_critical_files_Unchecked(tree) == critical_files

_backup_critical_files(tree) ==
  SelectSeq(critical_files, LAMBDA p : tree[p] # NoFile)

_backup_dependencies(tree) ==
  [package_json |-> IF tree["package.json"] # NoFile
                    THEN JsonLoad(tree["package.json"]) ELSE NoKey,
   requirements_txt |-> IF tree["requirements.txt"] # NoFile
                        THEN tree["requirements.txt"] ELSE NoKey]

\* faulty variant: every variable that is set is captured
_backup_environment_Everything(e) ==
  Restrict(e, {k \in EnvVars : e[k] # 0})

_backup_environment(e) ==
  Restrict(e, {k \in Range(safe_env_keys) : e[k] # 0})

\* checkpoint.json: json.dump(checkpoint_data) writes the parsed package.json
\* as text again, json.load parses it back
CheckpointJson(checkpoint_data) ==
  [checkpoint_data EXCEPT !.dependencies_backup.package_json =
                            IF @ = NoKey THEN NoKey ELSE JsonDump(@)]

FromCheckpointJson(text) ==
  [text EXCEPT !.dependencies_backup.package_json =
                 IF @ = NoKey THEN NoKey ELSE JsonLoad(@)]

\* the files directory of a checkpoint after the copies of a capture:
\* copy2 overwrites what it copies and leaves the rest of the directory
CopiedInto(old, tree) ==
  [p \in Range(critical_files) |-> IF tree[p] # NoFile THEN tree[p] ELSE old[p]]

(***************************************************************************)
(* create_checkpoint.  io: "none", or where an I/O error strikes: "mkdir"  *)
(* (creating the checkpoint directory, before the try) or "write" (a copy  *)
(* or the write of checkpoint.json, inside the try).                       *)
(***************************************************************************)
CheckpointId(t) == Seconds(t)

create_checkpoint(w, name, strategy, io, rev) ==
  LET checkpoint_id == CheckpointId(w.now)
      w1 == [w EXCEPT !.now = @ + 1]
      checkpoint_data ==
        [id |-> checkpoint_id,
         name |-> name,
         strategy |-> strategy,
         created_at |-> w.now,
         git_commit |-> _get_current_commit(w, rev),
         files_backup |-> _backup_critical_files(w.fs),
         dependencies_backup |-> _backup_dependencies(w.fs),
         environment_backup |-> _backup_environment(w.env)]
      old == IF checkpoint_id \in DOMAIN w.disk
             THEN w.disk[checkpoint_id].files ELSE EmptyFiles
      badJson == w.fs["package.json"] # NoFile /\ ~JsonValid(w.fs["package.json"])
  IN  IF io = "mkdir"
      THEN [w |-> w1, raised |-> "OSError", data |-> << >>]
      ELSE IF io = "write" \/ badJson
      THEN [w |-> [w1 EXCEPT !.disk = Remove(@, checkpoint_id)],
            raised |-> IF io = "write" THEN "OSError" ELSE "JSONDecodeError",
            data |-> << >>]
      ELSE [w |-> [w1 EXCEPT
                     !.disk = Put(@, checkpoint_id,
                                  [json |-> << CheckpointJson(checkpoint_data) >>,
                                   files |-> CopiedInto(old, w.fs)]),
                     !.checkpoints = Put(@, checkpoint_id, checkpoint_data)],
            raised |-> "",
            data |-> << checkpoint_data >>]

(***************************************************************************)
(* _restore_files.  fail_at = k > 0: the k-th copy raises (the copies      *)
(* before it are done); 0, or k beyond the last copy: none raises.         *)
(***************************************************************************)
SourceExists(w, id, p) == id \in DOMAIN w.disk /\ w.disk[id].files[p] # NoFile

_restore_files(w, checkpoint, critical_only, fail_at) ==
  LET todo == SelectSeq(checkpoint.files_backup,
                LAMBDA p : /\ (critical_only => _is_critical_file(p))
                           /\ SourceExists(w, checkpoint.id, p))
      failed == fail_at \in 1..Len(todo)
      done == IF failed THEN SubSeq(todo, 1, fail_at - 1) ELSE todo
      copied == [i \in 1..Len(done) |-> << "copy", done[i], "ok" >>]
      w1 == [w EXCEPT
               !.fs = [p \in Paths |-> IF p \in Range(done)
                                        THEN w.disk[checkpoint.id].files[p] ELSE w.fs[p]],
               !.ops = @ \o copied]
  IN  IF failed
      THEN [w |-> Ran(w1, "copy", todo[fail_at], "fail"),
            step |-> Step("restore_files", "failure", << >>, UnknownId, "error")]
      ELSE [w |-> w1,
            step |-> Step("restore_files", "success", done, UnknownId,
                          IF critical_only THEN "critical_only" ELSE "")]

(***************************************************************************)
(* _restore_dependencies                                                   *)
(***************************************************************************)
\* faulty variant: requirements.txt is restored although npm install failed
_restore_dependencies_Continuing(w, checkpoint, npm, pip) ==
  LET dependencies_backup == checkpoint.dependencies_backup
      hasPkg == dependencies_backup.package_json # NoKey
      hasReq == dependencies_backup.requirements_txt # NoKey
      w1 == IF hasPkg
            THEN Ran(Ran([w EXCEPT !.fs["package.json"] =
                                     JsonDump(dependencies_backup.package_json)],
                         "write", "package.json", "ok"),
                     "npm install", "", npm)
            ELSE w
      w2 == IF hasReq
            THEN Ran(Ran([w1 EXCEPT !.fs["requirements.txt"] =
                                      dependencies_backup.requirements_txt],
                         "write", "requirements.txt", "ok"),
                     "pip install", "", pip)
            ELSE w1
  IN  IF (hasPkg /\ npm # "ok") \/ (hasReq /\ pip # "ok")
      THEN [w |-> w2, step |-> Step("restore_dependencies", "failure", << >>, UnknownId, "error")]
      ELSE [w |-> w2, step |-> Step("restore_dependencies", "success", << >>, UnknownId, "")]

\* faulty variant: each install runs before its manifest is written
_restore_dependencies_InstallFirst(w, checkpoint, npm, pip) ==
  LET dependencies_backup == checkpoint.dependencies_backup
      hasPkg == dependencies_backup.package_json # NoKey
      hasReq == dependencies_backup.requirements_txt # NoKey
      w1 == IF hasPkg
            THEN Ran(Ran([w EXCEPT !.fs["package.json"] =
                                     JsonDump(dependencies_backup.package_json)],
                         "npm install", "", npm),
                     "write", "package.json", "ok")
            ELSE w
      w2 == IF hasReq
            THEN Ran(Ran([w1 EXCEPT !.fs["requirements.txt"] =
                                      dependencies_backup.requirements_txt],
                         "pip install", "", pip),
                     "write", "requirements.txt", "ok")
            ELSE w1
  IN  IF hasPkg /\ npm # "ok"
      THEN [w |-> w1, step |-> Step("restore_dependencies", "failure", << >>, UnknownId, "error")]
      ELSE IF hasReq /\ pip # "ok"
      THEN [w |-> w2, step |-> Step("restore_dependencies", "failure", << >>, UnknownId, "error")]
      ELSE [w |-> w2, step |-> Step("restore_dependencies", "success", << >>, UnknownId, "")]

_restore_dependencies(w, checkpoint, npm, pip) ==
  LET dependencies_backup == checkpoint.dependencies_backup
      hasPkg == dependencies_backup.package_json # NoKey
      hasReq == dependencies_backup.requirements_txt # NoKey
      w1 == IF hasPkg
            THEN Ran(Ran([w EXCEPT !.fs["package.json"] =
                                     JsonDump(dependencies_backup.package_json)],
                         "write", "package.json", "ok"),
                     "npm install", "", npm)
            ELSE w
      w2 == IF hasReq
            THEN Ran(Ran([w1 EXCEPT !.fs["requirements.txt"] =
                                      dependencies_backup.requirements_txt],
                         "write", "requirements.txt", "ok"),
                     "pip install", "", pip)
            ELSE w1
  IN  IF hasPkg /\ npm # "ok"
      THEN [w |-> w1, step |-> Step("restore_dependencies", "failure", << >>, UnknownId, "error")]
      ELSE IF hasReq /\ pip # "ok"
      THEN [w |-> w2, step |-> Step("restore_dependencies", "failure", << >>, UnknownId, "error")]
      ELSE [w |-> w2, step |-> Step("restore_dependencies", "success", << >>, UnknownId, "")]

(***************************************************************************)
(* _restore_environment                                                    *)
(***************************************************************************)
_restore_environment(w, checkpoint) ==
  LET env_backup == checkpoint.environment_backup
  IN  [w |-> [w EXCEPT !.env = [k \in EnvVars |-> IF k \in DOMAIN env_backup
                                                   THEN env_backup[k] ELSE w.env[k]]],
       step |-> Step("restore_environment", "success",
                     SelectSeq(safe_env_keys, LAMBDA k : k \in DOMAIN env_backup),
                     UnknownId, "")]

(***************************************************************************)
(* _rollback_git: git reset --hard <commit>.  Tracked paths take the       *)
(* commit's content, paths tracked at HEAD and absent from the commit go,  *)
(* untracked paths stay.                                                   *)
(***************************************************************************)
ResetHard(tree, head, target) ==
  [p \in Paths |-> IF target[p] # NoFile THEN target[p]
                   ELSE IF head[p] # NoFile THEN NoFile
                   ELSE tree[p]]

_rollback_git(w, commit_hash, git) ==
  LET w1 == Ran(w, "git reset --hard", "", git)
  IN  IF git = "ok"
      THEN [w |-> [w1 EXCEPT !.fs = ResetHard(w.fs, gitTrees[w.gitHead], gitTrees[commit_hash]),
                             !.gitHead = commit_hash],
            step |-> Step("rollback_git", "success", << >>, commit_hash, "")]
      ELSE [w |-> w1,
            step |-> Step("rollback_git", "failure", << >>, UnknownId, "error")]

(***************************************************************************)
(* _check_current_status: git status, then a build; an exception of either *)
(* one is swallowed into the returned data.                                *)
(***************************************************************************)
_check_current_status(w, status, build) ==
  IF status = "timeout"
  THEN [w |-> Ran(w, "git status", "", status), data |-> "status_check_failed"]
  ELSE [w |-> Ran(Ran(w, "git status", "", status), "npm run build", "", build),
        data |-> IF build = "timeout" THEN "status_check_failed"
                 ELSE IF build = "ok" THEN "success" ELSE "failure"]

_graceful_stop_services == Step("graceful_stop", "success", << >>, UnknownId, "")

_restart_services == Step("restart_services", "success", << >>, UnknownId, "")

(***************************************************************************)
(* _verify_rollback                                                        *)
(***************************************************************************)
\* faulty variant: the verdict is that of the build alone
_verify_rollback_BuildOnly(w, checkpoint, build) ==
  LET missing_files == SelectSeq(checkpoint.files_backup, LAMBDA p : w.fs[p] = NoFile)
      w1 == Ran(w, "npm run build", "", build)
  IN  IF build = "timeout"
      THEN [w |-> w1, step |-> Step("verify_rollback", "failure", << >>, UnknownId, "error")]
      ELSE [w |-> w1,
            step |-> Step("verify_rollback", IF build = "ok" THEN "success" ELSE "failure",
                          missing_files, UnknownId,
                          IF build = "ok" THEN "build_success" ELSE "build_failure")]

_verify_rollback(w, checkpoint, build) ==
  LET missing_files == SelectSeq(checkpoint.files_backup, LAMBDA p : w.fs[p] = NoFile)
      w1 == Ran(w, "npm run build", "", build)
      success == Len(missing_files) = 0 /\ build = "ok"
  IN  IF build = "timeout"
      THEN [w |-> w1, step |-> Step("verify_rollback", "failure", << >>, UnknownId, "error")]
      ELSE [w |-> w1,
            step |-> Step("verify_rollback", IF success THEN "success" ELSE "failure",
                          missing_files, UnknownId,
                          IF build = "ok" THEN "build_success" ELSE "build_failure")]

_verify_partial_rollback == Step("verify_partial_rollback", "success", << >>, UnknownId, "")

(***************************************************************************)
(* A strategy routine in progress: the world it has reached, the steps it  *)
(* has appended to rollback_result["steps"], the exception that ended it   *)
(* ("" while it runs).  Each  steps.append(await self._f(...))  of the     *)
(* source is one Append... below: it runs _f in the world reached and      *)
(* appends the step _f returns.                                            *)
(***************************************************************************)
Start(w) == [w |-> w, steps |-> << >>, raised |-> ""]

Appended(acc, r) == [w |-> r.w, steps |-> Append(acc.steps, r.step), raised |-> acc.raised]

AppendStep(acc, step) == [acc EXCEPT !.steps = Append(@, step)]

\* faulty variant: a checkpoint without backed-up files is refused
AppendRestoreFilesUnlessEmpty(acc, checkpoint, critical_only, fail_at) ==
  IF checkpoint.files_backup = << >>
  THEN AppendStep(acc, Step("restore_files", "failure", << >>, UnknownId, "error"))
  ELSE Appended(acc, _restore_files(acc.w, checkpoint, critical_only, fail_at))

AppendRestoreFiles(acc, checkpoint, critical_only, fail_at) ==
  Appended(acc, _restore_files(acc.w, checkpoint, critical_only, fail_at))

AppendRestoreDependencies(acc, checkpoint, npm, pip) ==
  Appended(acc, _restore_dependencies(acc.w, checkpoint, npm, pip))

AppendRestoreEnvironment(acc, checkpoint) ==
  Appended(acc, _restore_environment(acc.w, checkpoint))

\* faulty variant: the reset is run whatever the checkpoint recorded; without a
\* revision to reset to, git fails
AppendRollbackGitAlways(acc, checkpoint, git) ==
  Appended(acc, _rollback_git(acc.w, checkpoint.git_commit,
                              IF checkpoint.git_commit = NoCommit THEN "fail" ELSE git))

\* if checkpoint.get('git_commit'): steps.append(await self._rollback_git(...))
AppendRollbackGit(acc, checkpoint, git) ==
  IF checkpoint.git_commit # NoCommit
  THEN Appended(acc, _rollback_git(acc.w, checkpoint.git_commit, git))
  ELSE acc

AppendVerifyRollback(acc, checkpoint, build) ==
  Appended(acc, _verify_rollback(acc.w, checkpoint, build))

_immediate_rollback(w, checkpoint, o) ==
  AppendRollbackGit(
    AppendRestoreEnvironment(
      AppendRestoreDependencies(
        AppendRestoreFiles(Start(w), checkpoint, FALSE, o.copy),
        checkpoint, o.npm, o.pip),
      checkpoint),
    checkpoint, o.git)

\* current_status = await self._check_current_status(); steps.append({"step": "status_check", ...})
StatusStep(r) ==
  [w |-> r.w, step |-> Step("status_check", "success", << >>, UnknownId, r.data)]

AppendStatusCheck(acc, o) ==
  Appended(acc, StatusStep(_check_current_status(acc.w, o.status, o.build)))

\* current_checkpoint = self.create_checkpoint(...); steps.append({"step": "current_backup", ...})
BackupStep(acc, c) ==
  IF c.raised # ""
  THEN [w |-> Ran(c.w, "create_checkpoint", "", "fail"), steps |-> acc.steps,
        raised |-> c.raised]
  ELSE [w |-> Ran(c.w, "create_checkpoint", "", "ok"),
        steps |-> Append(acc.steps,
                         Step("current_backup", "success", << >>, c.data[1].id, "")),
        raised |-> ""]

AppendCurrentBackup(acc, o) ==
  BackupStep(acc, create_checkpoint(acc.w, "before_rollback", "immediate", o.io, o.rev))

\* the steps after the safety checkpoint
RestoreAndVerify(acc, checkpoint, o) ==
  AppendStep(
    AppendVerifyRollback(
      AppendRestoreDependencies(
        AppendRestoreFiles(AppendStep(acc, _graceful_stop_services),
                           checkpoint, FALSE, o.copy),
        checkpoint, o.npm, o.pip),
      checkpoint, o.verify),
    _restart_services)

\* faulty variant: the restore goes on after the safety checkpoint could not be created
GracefulRestIgnoringFailure(acc, checkpoint, o) ==
  RestoreAndVerify(acc, checkpoint, o)

\* an exception of create_checkpoint leaves the routine: nothing after it runs
GracefulRest(acc, checkpoint, o) ==
  IF acc.raised # "" THEN acc ELSE RestoreAndVerify(acc, checkpoint, o)

\* faulty variant: the safety checkpoint is taken before the status check
StatusAfter(acc, o) ==
  IF acc.raised # "" THEN acc ELSE AppendStatusCheck(acc, o)

_graceful_rollback_SnapshotFirst(w, checkpoint, o) ==
  GracefulRest(StatusAfter(AppendCurrentBackup(Start(w), o), o), checkpoint, o)

_graceful_rollback(w, checkpoint, o) ==
  GracefulRest(AppendCurrentBackup(AppendStatusCheck(Start(w), o), o), checkpoint, o)

\* faulty variant: the partial restore restores the dependencies as well
_partial_rollback_WithDependencies(w, checkpoint, o) ==
  AppendStep(
    AppendRestoreDependencies(
      AppendRestoreFiles(Start(w), checkpoint, TRUE, o.copy),
      checkpoint, o.npm, o.pip),
    _verify_partial_rollback)

_partial_rollback(w, checkpoint, o) ==
  AppendStep(AppendRestoreFiles(Start(w), checkpoint, TRUE, o.copy),
             _verify_partial_rollback)

_generate_manual_rollback_guide(checkpoint) ==
  [id |-> checkpoint.id, created_at |-> checkpoint.created_at,
   git_commit |-> checkpoint.git_commit, files |-> checkpoint.files_backup]

\* paths below rollback_dir, as sequences of names
IdString(checkpoint_id) == "checkpoint_" \o ToString(checkpoint_id)

\* self.rollback_dir / checkpoint_id
checkpoint_path(checkpoint_id) == << IdString(checkpoint_id) >>

\* faulty variant: the guide is written into the checkpoint's directory
guide_file_InCheckpoint(checkpoint) ==
  << IdString(checkpoint.id), "manual_rollback_guide.md" >>

\* self.rollback_dir / f"manual_rollback_guide_{checkpoint['id']}.md"
guide_file(checkpoint) ==
  << "manual_rollback_guide_" \o IdString(checkpoint.id) \o ".md" >>

\* faulty variant: the manual restore copies the files back before it writes the guide
GuideAfter(r, checkpoint) ==
  [w |-> Ran([r.w EXCEPT !.guides = Put(@, checkpoint.id,
                                        _generate_manual_rollback_guide(checkpoint))],
             "write guide", "", "ok"),
   steps |-> << Step("generate_guide", "success", guide_file(checkpoint),
                          checkpoint.id, "") >>,
   raised |-> ""]

_manual_rollback_Restoring(w, checkpoint, o) ==
  IF o.guide = "ok"
  THEN GuideAfter(_restore_files(w, checkpoint, FALSE, 0), checkpoint)
  ELSE [w |-> Ran(w, "write guide", "", "fail"), steps |-> << >>, raised |-> "OSError"]

_manual_rollback(w, checkpoint, o) ==
  IF o.guide = "ok"
  THEN [w |-> Ran([w EXCEPT !.guides = Put(@, checkpoint.id,
                                           _generate_manual_rollback_guide(checkpoint))],
                  "write guide", "", "ok"),
        steps |-> << Step("generate_guide", "success", guide_file(checkpoint),
                          checkpoint.id, "") >>,
        raised |-> ""]
  ELSE [w |-> Ran(w, "write guide", "", "fail"), steps |-> << >>, raised |-> "OSError"]

(***************************************************************************)
(* _load_checkpoint_from_file: the index after the attempt to load id.     *)
(***************************************************************************)
_load_checkpoint_from_file(index, dsk, checkpoint_id) ==
  IF checkpoint_id \in DOMAIN dsk /\ Len(dsk[checkpoint_id].json) = 1
  THEN Put(index, checkpoint_id, FromCheckpointJson(dsk[checkpoint_id].json[1]))
  ELSE index

\* faulty variant: an id the index does not hold is not looked up in storage
LoadedFromIndexOnly(index, dsk, checkpoint_id) == index

\* lines 87-89: the index execute_rollback looks the id up in
Loaded(index, dsk, checkpoint_id) ==
  IF checkpoint_id \in DOMAIN index THEN index
  ELSE _load_checkpoint_from_file(index, dsk, checkpoint_id)

(***************************************************************************)
(* execute_rollback.  Returns the world it leaves, the history, the        *)
(* exception it raised ("" when it returned) and rollback_result as it     *)
(* stood when the call ended (none when the checkpoint was not found).     *)
(***************************************************************************)
Dispatch(w, checkpoint, o) ==
  IF checkpoint.strategy = "immediate" THEN _immediate_rollback(w, checkpoint, o)
  ELSE IF checkpoint.strategy = "graceful" THEN _graceful_rollback(w, checkpoint, o)
  ELSE IF checkpoint.strategy = "partial" THEN _partial_rollback(w, checkpoint, o)
  ELSE _manual_rollback(w, checkpoint, o)

\* lines 119 and 125: success is set by how the strategy routine ended
Success(r) == r.raised = ""

RollbackResult(checkpoint_id, checkpoint, reason, started_at, r) ==
  [checkpoint_id |-> checkpoint_id,
   checkpoint_name |-> checkpoint.name,
   strategy |-> checkpoint.strategy,
   reason |-> reason,
   started_at |-> started_at,
   steps |-> r.steps,
   success |-> Success(r),
   error |-> r.raised,
   completed_at |-> r.w.now]

\* faulty variant: the history keeps the latest result only
RecordedLatestOnly(history, r, rollback_result) ==
  IF r.raised # "" THEN history ELSE << rollback_result >>

\* lines 119-135: the history after the call
Recorded(history, r, rollback_result) ==
  IF r.raised # "" THEN history ELSE Append(history, rollback_result)

Finish(history, r, rollback_result) ==
  [w |-> r.w, history |-> Recorded(history, r, rollback_result), raised |-> r.raised,
   result |-> << rollback_result >>]

Ended(history, checkpoint_id, checkpoint, reason, started_at, r) ==
  Finish(history, r, RollbackResult(checkpoint_id, checkpoint, reason, started_at, r))

Found(w, history, checkpoint_id, reason, o) ==
  Ended(history, checkpoint_id, w.checkpoints[checkpoint_id], reason, w.now,
        Dispatch(w, w.checkpoints[checkpoint_id], o))

\* faulty variant: the failed lookup is recorded in the history before it raises
LookedRecordingFailure(w, history, checkpoint_id, reason, o) ==
  IF checkpoint_id \notin DOMAIN w.checkpoints
  THEN [w |-> w,
        history |-> Append(history,
                      [checkpoint_id |-> checkpoint_id, checkpoint_name |-> "",
                       strategy |-> "", reason |-> reason, started_at |-> w.now,
                       steps |-> << >>, success |-> FALSE, error |-> "ValueError",
                       completed_at |-> w.now]),
        raised |-> "ValueError", result |-> << >>]
  ELSE Found(w, history, checkpoint_id, reason, o)

Looked(w, history, checkpoint_id, reason, o) ==
  IF checkpoint_id \notin DOMAIN w.checkpoints
  THEN [w |-> w, history |-> history, raised |-> "ValueError", result |-> << >>]
  ELSE Found(w, history, checkpoint_id, reason, o)

execute_rollback(w, history, checkpoint_id, reason, o) ==
  Looked([w EXCEPT !.checkpoints = Loaded(w.checkpoints, w.disk, checkpoint_id)],
         history, checkpoint_id, reason, o)

(***************************************************************************)
(* list_checkpoints: one summary per entry of self.checkpoints, sorted by   *)
(* created_at with reverse=True.  isoformat() strings of one clock compare  *)
(* as their instants do, so the sort key is the instant.                    *)
(***************************************************************************)
Summary(checkpoint_id, checkpoint_data) ==
  [id |-> checkpoint_id,
   name |-> checkpoint_data.name,
   strategy |-> checkpoint_data.strategy,
   created_at |-> checkpoint_data.created_at,
   git_commit |-> checkpoint_data.git_commit]

Newest(index, ids) ==
  CHOOSE i \in ids : \A j \in ids : index[j].created_at <= index[i].created_at

RECURSIVE SortedNewestFirst(_, _)
SortedNewestFirst(index, ids) ==
  IF ids = {} THEN << >>
  ELSE << Summary(Newest(index, ids), index[Newest(index, ids)]) >>
       \o SortedNewestFirst(index, ids \ {Newest(index, ids)})

list_checkpoints(index) == SortedNewestFirst(index, DOMAIN index)

(***************************************************************************)
(* cleanup_old_checkpoints.  fail: the ids whose shutil.rmtree raises; the  *)
(* except clause inside the loop logs it and the loop goes on.             *)
(***************************************************************************)
\* checkpoints[keep_count:]
ToRemove(listing, keep_count) ==
  IF Len(listing) > keep_count THEN SubSeq(listing, keep_count + 1, Len(listing)) ELSE << >>

RemoveIds(listing) == {listing[j].id : j \in 1..Len(listing)}

\* one pass of the loop body for every checkpoint of the list, in order
Rmtrees(dsk, listing, fail) ==
  [j \in 1..Len(listing) |->
     << "rmtree", listing[j].id,
        IF listing[j].id \notin DOMAIN dsk THEN "absent"
        ELSE IF listing[j].id \in fail THEN "fail" ELSE "ok" >>]

\* faulty variant: the try encloses the loop, the first failing deletion ends it
FirstFailure(dsk, listing, fail) ==
  IF \E j \in 1..Len(listing) : listing[j].id \in fail \cap DOMAIN dsk
  THEN CHOOSE j \in 1..Len(listing) :
         /\ listing[j].id \in fail \cap DOMAIN dsk
         /\ \A k \in 1..(j - 1) : listing[k].id \notin fail \cap DOMAIN dsk
  ELSE Len(listing)

CleanedUntilFirstFailure(w, listing, fail) ==
  [w EXCEPT
     !.disk = Restrict(@, (DOMAIN @) \
                (RemoveIds(SubSeq(listing, 1, FirstFailure(w.disk, listing, fail))) \ fail)),
     !.checkpoints = Restrict(@, (DOMAIN @) \
                (RemoveIds(SubSeq(listing, 1, FirstFailure(w.disk, listing, fail)))
                   \ (fail \cap DOMAIN w.disk))),
     !.ops = @ \o Rmtrees(w.disk, SubSeq(listing, 1, FirstFailure(w.disk, listing, fail)), fail)]

Cleaned(w, listing, fail) ==
  [w EXCEPT
     !.disk = Restrict(@, (DOMAIN @) \ (RemoveIds(listing) \ fail)),
     !.checkpoints = Restrict(@, (DOMAIN @) \ (RemoveIds(listing) \ (fail \cap DOMAIN w.disk))),
     !.ops = @ \o Rmtrees(w.disk, listing, fail)]

cleanup_old_checkpoints(w, keep_count, fail) ==
  Cleaned(w, ToRemove(list_checkpoints(w.checkpoints), keep_count), fail)

(***************************************************************************)
(* Writing a world back to the variables.                                  *)
(***************************************************************************)
Commit(w) ==
  /\ fs' = w.fs
  /\ env' = w.env
  /\ gitHead' = w.gitHead
  /\ now' = w.now
  /\ checkpoints' = w.checkpoints
  /\ disk' = w.disk
  /\ guides' = w.guides

\* git rev-parse HEAD: it prints the revision, returns non-zero, or times out
RevOutcomes == {"ok", "fail", "timeout"}

\* the instants a call can start at
Instants == now..(IF now < MaxClock THEN MaxClock ELSE now)

At(t) == [World EXCEPT !.now = t]

CreateCheckpointWithin(budget) ==
  /\ calls < budget
  /\ \E t \in Instants, strategy \in RollbackStrategy,
        io \in {"none", "mkdir", "write"}, rev \in RevOutcomes :
       \E r \in {create_checkpoint(At(t), "before_build", strategy, io, rev)} :
         /\ Commit(r.w)
         /\ last' = [op |-> "create_checkpoint", id |-> CheckpointId(t),
                     raised |-> r.raised, result |-> << >>,
                     ops |-> IF io = "mkdir" THEN << >>
                             ELSE << << "git rev-parse", "HEAD", rev >> >>,
                     at |-> edits, from_file |-> FALSE]
  /\ calls' = calls + 1
  /\ UNCHANGED << rate_limits, wall, log, error_count, mcp_clients, loop, gitTrees, rollback_history, edits >>

CreateCheckpoint == CreateCheckpointWithin(MaxCalls)

\* the outcomes not drawn by a strategy stay at these
Smooth ==
  [copy |-> 0, npm |-> "ok", pip |-> "ok", git |-> "ok", status |-> "ok",
   build |-> "ok", io |-> "none", rev |-> "ok", verify |-> "ok", guide |-> "ok"]

\* an install runs only for a manifest the checkpoint holds, and pip only after npm
Installs(checkpoint) ==
  {i \in [npm : Outcomes, pip : Outcomes] :
     /\ (checkpoint.dependencies_backup.package_json = NoKey => i.npm = "ok")
     /\ (checkpoint.dependencies_backup.requirements_txt = NoKey => i.pip = "ok")
     /\ (i.npm # "ok" => i.pip = "ok")}

\* git status, and the build only when git status did not raise
StatusChecks ==
  {s \in [status : {"ok", "timeout"}, build : Outcomes] :
     s.status = "timeout" => s.build = "ok"}

\* the outcomes a restore of this checkpoint can meet
Draws(checkpoint) ==
  IF checkpoint.strategy = "immediate" THEN
    {[Smooth EXCEPT !.copy = k, !.npm = i.npm, !.pip = i.pip, !.git = g] :
       k \in 0..Len(checkpoint.files_backup), i \in Installs(checkpoint),
       g \in IF checkpoint.git_commit = NoCommit THEN {"ok"} ELSE {"ok", "fail"}}
  ELSE IF checkpoint.strategy = "graceful" THEN
    {[Smooth EXCEPT !.status = s.status, !.build = s.build, !.io = io] :
       s \in StatusChecks, io \in {"mkdir", "write"}}
    \cup
    {[Smooth EXCEPT !.status = s.status, !.build = s.build, !.rev = rev, !.copy = k,
                    !.npm = i.npm, !.pip = i.pip, !.verify = v] :
       s \in StatusChecks, rev \in RevOutcomes, k \in 0..Len(checkpoint.files_backup),
       i \in Installs(checkpoint), v \in Outcomes}
  ELSE IF checkpoint.strategy = "partial" THEN
    {[Smooth EXCEPT !.copy = k] : k \in 0..Len(checkpoint.files_backup)}
  ELSE
    {[Smooth EXCEPT !.guide = g] : g \in {"ok", "fail"}}

DrawsFor(index, checkpoint_id) ==
  IF checkpoint_id \in DOMAIN index THEN Draws(index[checkpoint_id]) ELSE {Smooth}

\* every id a checkpoint can have had so far, and one none ever had
RequestedIds == 0..CheckpointId(now) \cup {UnknownId}

\* reasons: what callers pass as the second argument
ExecuteRollbackWithin(budget, reasons) ==
  /\ calls < budget
  /\ \E t \in Instants, id \in RequestedIds, reason \in reasons :
       \E o \in DrawsFor(Loaded(checkpoints, disk, id), id) :
         \E r \in {execute_rollback(At(t), rollback_history, id, reason, o)} :
           /\ Commit(r.w)
           /\ rollback_history' = r.history
           /\ last' = [op |-> "execute_rollback", id |-> id, raised |-> r.raised,
                       result |-> r.result, ops |-> r.w.ops, at |-> edits,
                       from_file |-> id \notin DOMAIN checkpoints /\ r.result # << >>]
  /\ calls' = calls + 1
  /\ UNCHANGED << rate_limits, wall, log, error_count, mcp_clients, loop, gitTrees, edits >>

ExecuteRollback == ExecuteRollbackWithin(MaxCalls, {"build failed"})

(***************************************************************************)
(* What happens around the manager: the project is edited, variables are   *)
(* set, commits are made, the process restarts.                            *)
(***************************************************************************)
EditFile ==
  /\ edits < MaxEdits
  /\ \E p \in EditedPaths, c \in {NoFile} \cup Contents :
       /\ c # fs[p]
       /\ fs' = [fs EXCEPT ![p] = c]
  /\ edits' = edits + 1
  /\ UNCHANGED << rate_limits, wall, log, error_count, mcp_clients, loop, env, gitHead, gitTrees, now, checkpoints, disk, guides,
                  rollback_history, last, calls >>

SetEnv ==
  /\ edits < MaxEdits
  /\ \E k \in EditedVars, v \in 0..MaxEnvVal :
       /\ v # env[k]
       /\ env' = [env EXCEPT ![k] = v]
  /\ edits' = edits + 1
  /\ UNCHANGED << rate_limits, wall, log, error_count, mcp_clients, loop, fs, gitHead, gitTrees, now, checkpoints, disk, guides,
                  rollback_history, last, calls >>

GitCommit ==
  /\ gitHead # NoCommit
  /\ Len(gitTrees) < MaxCommits
  /\ fs # gitTrees[gitHead]
  /\ gitTrees' = Append(gitTrees, fs)
  /\ gitHead' = Len(gitTrees) + 1
  /\ UNCHANGED << rate_limits, wall, log, error_count, mcp_clients, loop, fs, env, now, checkpoints, disk, guides,
                  rollback_history, last, calls, edits >>

ListCheckpointsWithin(budget) ==
  /\ calls < budget
  /\ last' = [op |-> "list_checkpoints", id |-> UnknownId, raised |-> "",
              result |-> list_checkpoints(checkpoints), ops |-> << >>, at |-> edits,
              from_file |-> FALSE]
  /\ calls' = calls + 1
  /\ UNCHANGED << rate_limits, wall, log, error_count, mcp_clients, loop, fs, env, gitHead, gitTrees, now, checkpoints, disk, guides,
                  rollback_history, edits >>

ListCheckpoints == ListCheckpointsWithin(MaxCalls)

\* the directories rmtree can fail on: those of the checkpoints to remove
Deletable(keep_count) ==
  RemoveIds(ToRemove(list_checkpoints(checkpoints), keep_count)) \cap DOMAIN disk

\* last.id is the call's argument: here keep_count
CleanupOldCheckpointsWithin(budget) ==
  /\ calls < budget
  /\ \E keep_count \in 0..MaxKeep :
       \E fail \in SUBSET Deletable(keep_count) :
         \E w \in {cleanup_old_checkpoints(World, keep_count, fail)} :
           /\ checkpoints' = w.checkpoints
           /\ disk' = w.disk
           /\ last' = [op |-> "cleanup_old_checkpoints", id |-> keep_count, raised |-> "",
                       result |-> list_checkpoints(checkpoints), ops |-> w.ops,
                       at |-> edits, from_file |-> FALSE]
  /\ calls' = calls + 1
  /\ UNCHANGED << rate_limits, wall, log, error_count, mcp_clients, loop, fs, env, gitHead, gitTrees, now, guides, rollback_history, edits >>

CleanupOldCheckpoints == CleanupOldCheckpointsWithin(MaxCalls)

\* a new RollbackManager over the same project: __init__
NewManager ==
  /\ checkpoints # << >> \/ rollback_history # << >>
  /\ checkpoints' = << >>
  /\ rollback_history' = << >>
  /\ last' = [NoLast EXCEPT !.op = "__init__", !.at = edits]
  /\ UNCHANGED << rate_limits, wall, log, error_count, mcp_clients, loop, fs, env, gitHead, gitTrees, now, disk, guides, calls, edits >>

Next ==
  \/ CreateCheckpoint
  \/ ExecuteRollback
  \/ ListCheckpoints
  \/ CleanupOldCheckpoints
  \/ EditFile
  \/ SetEnv
  \/ GitCommit
  \/ NewManager

Spec == Init /\ [][Next]_vars

(***************************************************************************)
(* The store on its own: captures, listings, evictions and restarts of the *)
(* manager, explored one call deeper.                                      *)
(***************************************************************************)
NextStore ==
  \/ CreateCheckpointWithin(MaxStoreCalls)
  \/ ListCheckpointsWithin(MaxStoreCalls)
  \/ CleanupOldCheckpointsWithin(MaxStoreCalls)
  \/ NewManager

SpecStore == Init /\ [][NextStore]_vars

(***************************************************************************)
(* One manager on its own, nothing changing around it, explored one call   *)
(* deeper.                                                                 *)
(***************************************************************************)
NextRestore ==
  \/ CreateCheckpointWithin(MaxRestoreCalls)
  \/ ExecuteRollbackWithin(MaxRestoreCalls, {"build failed"})
  \/ ListCheckpointsWithin(MaxRestoreCalls)
  \/ CleanupOldCheckpointsWithin(MaxRestoreCalls)

SpecRestore == Init /\ [][NextRestore]_vars

(***************************************************************************)
(* Callers who want another strategy than the checkpoint's.  The signature *)
(* is execute_rollback(checkpoint_id, reason): the one place a caller can  *)
(* pass a strategy in is the second argument.                              *)
(***************************************************************************)
Reasons == {"build failed"} \cup RollbackStrategy

NextOverride ==
  \/ CreateCheckpointWithin(MaxOverrideCalls)
  \/ ExecuteRollbackWithin(MaxOverrideCalls, Reasons)

SpecOverride == Init /\ [][NextOverride]_vars

(***************************************************************************)
(* RollbackStrategySelector.select_strategy: a static method, no manager   *)
(* involved.  A context is a dict: a function from the keys it holds to    *)
(* the truth of their values.                                              *)
(***************************************************************************)
ErrorTypes ==
  {"build_failure", "dependency_conflict", "test_failure", "lint_warning",
   "deploy_failure", "network_timeout"}

Severities == {"critical", "high", "medium", "low"}

ContextKeys == {"manual_intervention_required", "retryable"}

Contexts == UNION {[K -> BOOLEAN] : K \in SUBSET ContextKeys}

\* dict.get(key, default)
ContextGet(context, key, default) ==
  IF key \in DOMAIN context THEN context[key] ELSE default

\* faulty variant: the flag of the context is looked at before the error type
select_strategy_FlagFirst(error_type, severity, context) ==
  IF severity = "critical" THEN "immediate"
  ELSE IF ContextGet(context, "manual_intervention_required", FALSE) THEN "manual"
  ELSE IF error_type \in {"build_failure", "dependency_conflict"} THEN "graceful"
  ELSE IF error_type \in {"test_failure", "lint_warning"} THEN "partial"
  ELSE "graceful"

select_strategy(error_type, severity, context) ==
  IF severity = "critical" THEN "immediate"
  ELSE IF error_type \in {"build_failure", "dependency_conflict"} THEN "graceful"
  ELSE IF error_type \in {"test_failure", "lint_warning"} THEN "partial"
  ELSE IF ContextGet(context, "manual_intervention_required", FALSE) THEN "manual"
  ELSE "graceful"

\* last.result holds the arguments of the call and what it returned
SelectStrategy ==
  /\ \E error_type \in ErrorTypes, severity \in Severities, context \in Contexts :
       last' = [op |-> "select_strategy", id |-> UnknownId, raised |-> "",
                result |-> << [error_type |-> error_type, severity |-> severity,
                               context |-> context,
                               strategy |-> select_strategy(error_type, severity, context)] >>,
                ops |-> << >>, at |-> edits, from_file |-> FALSE]
  /\ UNCHANGED << rate_limits, wall, log, error_count, mcp_clients, loop, fs, env, gitHead, gitTrees, now, checkpoints, disk, guides,
                  rollback_history, calls, edits >>

NextSelector == SelectStrategy

SpecSelector == Init /\ [][NextSelector]_vars

(***************************************************************************)
(* execute_rollback as a coroutine on an asyncio event loop.  The loop     *)
(* runs one coroutine at a time and takes it back only where the coroutine *)
(* awaits something that is not finished.  Routines(strategy) are the      *)
(* routines the strategy's routine runs, in order.                         *)
(***************************************************************************)
Routines(strategy) ==
  IF strategy = "immediate" THEN
    << "_restore_files", "_restore_dependencies", "_restore_environment", "_rollback_git" >>
  ELSE IF strategy = "graceful" THEN
    << "_check_current_status", "create_checkpoint", "_graceful_stop_services",
       "_restore_files", "_restore_dependencies", "_verify_rollback", "_restart_services" >>
  ELSE IF strategy = "partial" THEN
    << "_restore_files", "_verify_partial_rollback" >>
  ELSE << "_generate_manual_rollback_guide" >>

\* faulty variant: the commands run as subprocesses of the loop and are awaited
SuspendsAtCommands(routine) ==
  routine \in {"_check_current_status", "_restore_dependencies", "_rollback_git",
               "_verify_rollback"}

\* no routine awaits anything but other routines of the manager; the commands
\* run under subprocess.run, which blocks the thread
Suspends(routine) == FALSE

\* a caller puts an execute_rollback on the loop
Invoke ==
  /\ \E t \in Tasks, strategy \in RollbackStrategy :
       /\ loop.tasks[t].state = "none"
       /\ loop' = [loop EXCEPT !.tasks[t] = [state |-> "ready", strategy |-> strategy,
                                              pc |-> 0]]
  /\ UNCHANGED << rate_limits, wall, log, error_count, mcp_clients, fs, env, gitHead, gitTrees, now, checkpoints, disk, guides,
                  rollback_history, last, calls, edits >>

\* the loop, holding no coroutine, takes a ready one
Resume ==
  /\ loop.current = NoTask
  /\ \E t \in Tasks :
       /\ loop.tasks[t].state = "ready"
       /\ loop' = [loop EXCEPT !.current = t]
  /\ UNCHANGED << rate_limits, wall, log, error_count, mcp_clients, fs, env, gitHead, gitTrees, now, checkpoints, disk, guides,
                  rollback_history, last, calls, edits >>

Advanced(l, task, routine, finished) ==
  [tasks |-> [l.tasks EXCEPT ![l.current] =
                [task EXCEPT !.pc = task.pc + 1,
                             !.state = IF finished THEN "done" ELSE "ready"]],
   current |-> IF finished \/ Suspends(routine) THEN NoTask ELSE l.current,
   trace |-> Append(l.trace, << l.current, routine >>)]

\* the running coroutine runs its next routine
RunRoutine ==
  /\ loop.current # NoTask
  /\ \E task \in {loop.tasks[loop.current]} :
       loop' = Advanced(loop, task, Routines(task.strategy)[task.pc + 1],
                        task.pc + 1 = Len(Routines(task.strategy)))
  /\ UNCHANGED << rate_limits, wall, log, error_count, mcp_clients, fs, env, gitHead, gitTrees, now, checkpoints, disk, guides,
                  rollback_history, last, calls, edits >>

NextLoop ==
  \/ Invoke
  \/ Resume
  \/ RunRoutine

SpecLoop == Init /\ [][NextLoop]_vars

(***************************************************************************)
(* SecurityConfig.check_rate_limit(user, action).  A call is modelled by   *)
(* the positional arguments it passes; the test and MCPAgent pass one.     *)
(***************************************************************************)
RateWindow == 60
RateMax == 10

\* the test passes "test_instruction_<i>" alone, others a user and an action
RateArgs ==
  {<< i >> : i \in {"test_instruction_0", "test_instruction_1", "test_instruction_2"}}
  \cup {<< u, a >> : u \in {"agent"}, a \in {"build", "test"}}

Recent(limits, key, current_time) ==
  SelectSeq(IF key \in DOMAIN limits THEN limits[key] ELSE << >>,
            LAMBDA timestamp : current_time - timestamp < RateWindow)

\* a call that does not pass both user and action is a TypeError
check_rate_limit(limits, args, current_time) ==
  IF Len(args) # 2
  THEN [limits |-> limits, outcome |-> "TypeError"]
  ELSE IF Len(Recent(limits, args, current_time)) >= RateMax
  THEN [limits |-> Put(limits, args, Recent(limits, args, current_time)),
        outcome |-> "False"]
  ELSE [limits |-> Put(limits, args, Append(Recent(limits, args, current_time),
                                            current_time)),
        outcome |-> "True"]

CheckRateLimit ==
  /\ Len(log) < MaxRateCalls
  /\ \E args \in RateArgs :
       \E r \in {check_rate_limit(rate_limits, args, wall)} :
         /\ rate_limits' = r.limits
         /\ log' = Append(log, [op |-> "check_rate_limit", args |-> args,
                                 outcome |-> r.outcome])
  /\ UNCHANGED << wall, error_count, mcp_clients >>
  /\ UNCHANGED managerVars

\* time passes
Wait ==
  /\ wall < MaxWall
  /\ wall' = wall + WallStep
  /\ UNCHANGED << rate_limits, log, error_count, mcp_clients >>
  /\ UNCHANGED managerVars

NextRateLimit ==
  \/ CheckRateLimit
  \/ Wait

SpecRateLimit == Init /\ [][NextRateLimit]_vars

(***************************************************************************)
(* Module security binds the name datetime with `from datetime import      *)
(* datetime`: the class.  datetime.datetime.now() looks the attribute       *)
(* datetime up on that class, which has none of that name.                 *)
(***************************************************************************)
DatetimeDatetimeNow ==
  IF "datetime" \in {"now", "utcnow", "today", "fromtimestamp", "fromisoformat",
                     "strptime", "combine", "min", "max", "resolution"}
  THEN "" ELSE "AttributeError"

(***************************************************************************)
(* ErrorHandling.  An error is modelled by the name of its class; fallback *)
(* is what _execute_fallback does when it is called: "ok" or "raise".      *)
(***************************************************************************)
max_consecutive_failures == 3


\* self.error_count.get(error_type, 0)
CountOf(counts, error_type) ==
  IF error_type \in DOMAIN counts THEN counts[error_type] ELSE 0

\* the file name is computed before the try block, the entry inside it
_record_error == DatetimeDatetimeNow

\* fallback_enabled: the attribute, which __init__ sets to True and nothing changes
_trigger_fallback(fallback_enabled, fallback) ==
  IF ~fallback_enabled
  THEN [type |-> "error_handled", action |-> "fail", consecutive_failures |-> NoKey]
  ELSE IF fallback = "ok"
  THEN [type |-> "fallback_triggered", action |-> "fallback", consecutive_failures |-> NoKey]
  ELSE [type |-> "fallback_failed", action |-> "fail", consecutive_failures |-> NoKey]

handle_error(counts, error_type, fallback) ==
  IF _record_error # ""
  THEN [counts |-> counts, raised |-> _record_error, returned |-> << >>]
  ELSE [counts |-> Put(counts, error_type, CountOf(counts, error_type) + 1),
        raised |-> "",
        returned |->
          << IF CountOf(counts, error_type) + 1 >= max_consecutive_failures
             THEN _trigger_fallback(TRUE, fallback)
             ELSE [type |-> "error_handled", action |-> "retry",
                   consecutive_failures |-> CountOf(counts, error_type) + 1] >>]

reset_error_count(counts, error_type) ==
  IF error_type # "" THEN Put(counts, error_type, 0) ELSE << >>

HandleError ==
  /\ Len(log) < MaxErrorCalls
  /\ \E error_type \in {"ValueError", "RuntimeError"}, fallback \in {"ok", "raise"} :
       \E r \in {handle_error(error_count, error_type, fallback)} :
         /\ error_count' = r.counts
         /\ log' = Append(log, [op |-> "handle_error", args |-> << error_type >>,
                                 outcome |-> [raised |-> r.raised, returned |-> r.returned]])
  /\ UNCHANGED << rate_limits, wall, mcp_clients >>
  /\ UNCHANGED managerVars

ResetErrorCount ==
  /\ Len(log) < MaxErrorCalls
  /\ \E error_type \in {"ValueError", "RuntimeError", ""} :      \* "": error_type = None
       /\ error_count' = reset_error_count(error_count, error_type)
       /\ log' = Append(log, [op |-> "reset_error_count", args |-> << error_type >>,
                               outcome |-> [raised |-> "", returned |-> << >>]])
  /\ UNCHANGED << rate_limits, wall, mcp_clients >>
  /\ UNCHANGED managerVars

NextErrors ==
  \/ HandleError
  \/ ResetErrorCount

SpecErrors == Init /\ [][NextErrors]_vars

(***************************************************************************)
(* What MCPAgent calls on its SecurityConfig.  The class defines the       *)
(* methods below and no __getattr__: a call of any other name raises       *)
(* AttributeError.                                                         *)
(***************************************************************************)
SecurityConfigMethods ==
  {"_get_or_generate_key", "encrypt_sensitive_data", "decrypt_sensitive_data",
   "_encrypt", "_decrypt", "validate_instruction", "audit_action", "_save_audit_log",
   "check_rate_limit", "sanitize_output", "validate_mcp_config",
   "_validate_server_config"}

SecurityCall(name) ==
  IF name \in SecurityConfigMethods THEN "" ELSE "AttributeError"

(***************************************************************************)
(* Instructions and error messages are sequences of phrases; `pattern in   *)
(* text.lower()` is: some phrase of the text, lowered, is the pattern.     *)
(***************************************************************************)
\* the phrase "x * 1001" stands for 1001 characters, any other for 8

RECURSIVE Length(_)
Length(text) ==
  IF text = << >> THEN 0
  ELSE (IF Head(text) = "x * 1001" THEN 1001 ELSE 8) + Length(Tail(text))

Lower(phrase) ==
  IF phrase = "WGET" THEN "wget"
  ELSE IF phrase = "Build Failed" THEN "build failed"
  ELSE phrase

Contains(text, patterns) == \E j \in 1..Len(text) : Lower(text[j]) \in patterns

dangerous_patterns ==
  {"rm -rf /", "sudo rm", "format", "> /dev/null", "wget", "curl", "nc -l", "ssh",
   "scp", "eval", "exec", "system", "import os", "subprocess.call", "os.system"}

validate_instruction(instruction) ==
  IF Length(instruction) > 1000 THEN FALSE
  ELSE ~Contains(instruction, dangerous_patterns)

\* _parse_instruction: the task type with the most keywords in the instruction
\* (the Chinese keywords and messages are written in pinyin)
task_keywords ==
  [test |-> {"ceshi", "test", "danyuan ceshi", "unit test"},
   lint |-> {"jiancha", "daima zhiliang", "lint", "eslint"},
   security |-> {"anquan", "loudong", "security", "scan"},
   coverage |-> {"fugailv", "coverage", "ceshi fugai"},
   build |-> {"goujian", "build", "bianyi"}]

\* an exception: its class and the phrases of str(error)
Error(type, message) == [type |-> type, message |-> message]
NoError == Error("", << >>)

_parse_instruction(instruction) ==
  IF \A t \in DOMAIN task_keywords : ~Contains(instruction, task_keywords[t])
  THEN Error("ValueError", << "wufa shibie zhiling leixing" >> \o instruction)
  ELSE IF DatetimeDatetimeNow # ""
  THEN Error(DatetimeDatetimeNow,
             << "type object 'datetime.datetime' has no attribute 'datetime'" >>)
  ELSE NoError

critical_error_patterns ==
  {"build failed", "dependency conflict", "permission denied", "file not found",
   "import error", "module not found", "syntax error", "type error",
   "network timeout", "connection refused"}

_should_auto_rollback(error) == Contains(error.message, critical_error_patterns)

\* what one execute_instruction did: the calls it reached, in order, the exception
\* that left it, the exception its except clause handled, the checkpoint it created
\* and the checkpoint it rolled back to
Invocation(instruction, reached, raised, checkpoint, rollback) ==
  [op |-> "execute_instruction", args |-> << instruction >>,
   outcome |-> [reached |-> reached, raised |-> raised, handled |-> NoError,
                checkpoint |-> checkpoint, rollback |-> rollback]]

Left(w, history, limits, counts, invocation) ==
  [w |-> w, history |-> history, limits |-> limits, counts |-> counts,
   invocation |-> invocation]

(***************************************************************************)
(* The except clause of execute_instruction.  handle_error is a plain      *)
(* method: it raises or returns a dict, and `await` takes no dict.         *)
(* checkpoint: << >> while the name is unbound, else << id >>; reading it   *)
(* unbound raises inside the inner try, whose except clause swallows it.   *)
(***************************************************************************)
Awaitable(returned) == FALSE

AutoRollback(w, history, limits, counts, instruction, reached, checkpoint, o) ==
  IF checkpoint = << >>
  THEN Left(w, history, limits, counts,
            Invocation(instruction, reached, "", checkpoint, << >>))
  ELSE LET r == execute_rollback(w, history, checkpoint[1], "auto rollback", o)
       IN  Left(r.w, r.history, limits, counts,
                Invocation(instruction, Append(reached, "execute_rollback"), "",
                           checkpoint, << checkpoint[1] >>))

OnError(w, history, limits, counts, instruction, reached, e, checkpoint, x) ==
  LET h == handle_error(counts, e.type, x.fallback)
      at == Append(reached, "handle_error")
  IN  IF h.raised # ""
      THEN Left(w, history, limits, h.counts,
                Invocation(instruction, at, h.raised, checkpoint, << >>))
      ELSE IF ~Awaitable(h.returned)
      THEN Left(w, history, limits, h.counts,
                Invocation(instruction, at, "TypeError", checkpoint, << >>))
      ELSE IF _should_auto_rollback(e)
      THEN AutoRollback(w, history, limits, h.counts, instruction, at, checkpoint, x.o)
      ELSE Left(w, history, limits, h.counts,
                Invocation(instruction, at, "", checkpoint, << >>))

Handled(w, history, limits, counts, instruction, reached, e, checkpoint, x) ==
  [OnError(w, history, limits, counts, instruction, reached, e, checkpoint, x)
     EXCEPT !.invocation.outcome.handled = e]

\* _execute_task_sequence: it logs task_started before the first action
_execute_task_sequence(task) ==
  IF SecurityCall("log_audit_event") # ""
  THEN Error(SecurityCall("log_audit_event"),
             << "'SecurityConfig' object has no attribute 'log_audit_event'" >>)
  ELSE task

\* the try block of execute_instruction
Tried(w, history, limits, counts, instruction, reached, x) ==
  LET parsed == _parse_instruction(instruction)
      c == create_checkpoint(w, "before_instruction", "graceful", x.io, x.rev)
      ran == _execute_task_sequence(x.task)
      p == Append(reached, "_parse_instruction")
      q == Append(p, "create_checkpoint")
  IN  IF parsed # NoError
      THEN Handled(w, history, limits, counts, instruction, p, parsed, << >>, x)
      ELSE IF c.raised # ""
      THEN Handled(c.w, history, limits, counts, instruction, q,
                   Error(c.raised, << >>), << >>, x)
      ELSE IF SecurityCall("log_audit_event") # ""
      THEN Handled(c.w, history, limits, counts, instruction, q,
                   Error(SecurityCall("log_audit_event"), << >>), << c.data[1].id >>, x)
      ELSE IF ran # NoError
      THEN Handled(c.w, history, limits, counts, instruction,
                   Append(q, "_execute_task_sequence"), ran, << c.data[1].id >>, x)
      ELSE Left(c.w, history, limits, counts,
                Invocation(instruction, Append(q, "_execute_task_sequence"), "",
                           << c.data[1].id >>, << >>))

(***************************************************************************)
(* execute_instruction.  x: what the invocation meets (an I/O error of the *)
(* capture, the error of the task sequence, what the fallback and the      *)
(* restore meet).  Validation, rate limiting and the first audit entry     *)
(* come before the try block: what they raise leaves the method.           *)
(***************************************************************************)
execute_instruction(w, history, limits, counts, instruction, current_time, x) ==
  LET admitted == check_rate_limit(limits, << instruction >>, current_time)
      v == << "validate_instruction" >>
      r == << "validate_instruction", "check_rate_limit" >>
  IN  IF ~validate_instruction(instruction)
      THEN Left(w, history, limits, counts, Invocation(instruction, v, "ValueError", << >>, << >>))
      ELSE IF admitted.outcome = "TypeError"
      THEN Left(w, history, admitted.limits, counts,
                Invocation(instruction, r, "TypeError", << >>, << >>))
      ELSE IF admitted.outcome = "False"
      THEN Left(w, history, admitted.limits, counts,
                Invocation(instruction, r, "ValueError", << >>, << >>))
      ELSE IF SecurityCall("log_audit_event") # ""
      THEN Left(w, history, admitted.limits, counts,
                Invocation(instruction, r, SecurityCall("log_audit_event"), << >>, << >>))
      ELSE Tried(w, history, admitted.limits, counts, instruction, r, x)

ExecuteInstruction ==
  /\ Len(log) < MaxInstructions
  /\ \E instruction \in {<< "run", "test" >>, << "build" >>, << "Build Failed", "test" >>, << "hello" >>,
                         << "WGET", "build" >>, << "x * 1001" >>},
        x \in {[io |-> io, rev |-> "ok", fallback |-> "ok", o |-> Smooth, task |-> task] :
                 io \in {"none", "write"},
                 task \in {NoError, Error("RuntimeError", << "Build Failed" >>)}} :
       \E r \in {execute_instruction(World, rollback_history, rate_limits, error_count,
                                      instruction, wall, x)} :
         /\ Commit(r.w)
         /\ rollback_history' = r.history
         /\ rate_limits' = r.limits
         /\ error_count' = r.counts
         /\ log' = Append(log, r.invocation)
  /\ UNCHANGED << wall, mcp_clients, gitTrees, last, calls, edits, loop >>

NextAgent ==
  \/ ExecuteInstruction
  \/ Wait

SpecAgent == Init /\ [][NextAgent]_vars

(***************************************************************************)
(* _start_mcp_clients: the clients of the configured servers are started   *)
(* in order; the first that fails to start raises and the rest stay out.   *)
(***************************************************************************)
Servers == << "github", "filesystem" >>

StartMcpClients ==
  /\ \E started \in 0..Len(Servers) :
       mcp_clients' = {Servers[k] : k \in 1..started}
  /\ mcp_clients' # mcp_clients
  /\ UNCHANGED << rate_limits, wall, log, error_count >>
  /\ UNCHANGED managerVars

(***************************************************************************)
(* _call_mcp_tool.  tool: what client.call_tool does at each attempt, "ok" *)
(* or "fail"; valid: what the validation of the arguments answers.  did:   *)
(* the attempts made, the sleeps taken, the audit events written, the      *)
(* exception raised and whether a result was returned.  The audit call     *)
(* after a successful attempt is inside the try block: what it raises      *)
(* makes the attempt a failed one.                                         *)
(***************************************************************************)
max_retries == 3

NoneDid == [attempts |-> 0, sleeps |-> << >>, audit |-> << >>, raised |-> "",
            returned |-> FALSE]

RECURSIVE Retry(_, _, _)
Retry(tool, attempt, did) ==
  IF attempt >= max_retries THEN [did EXCEPT !.raised = "RuntimeError"]
  ELSE IF tool[attempt + 1] = "ok" /\ SecurityCall("log_audit_event") = ""
  THEN [did EXCEPT !.attempts = @ + 1, !.audit = Append(@, "tool_call_success"),
                   !.returned = TRUE]
  ELSE IF attempt < max_retries - 1
  THEN Retry(tool, attempt + 1,
             [did EXCEPT !.attempts = @ + 1, !.sleeps = Append(@, 2 ^ attempt)])
  ELSE IF SecurityCall("log_audit_event") # ""
  THEN [did EXCEPT !.attempts = @ + 1, !.raised = SecurityCall("log_audit_event")]
  ELSE Retry(tool, attempt + 1,
             [did EXCEPT !.attempts = @ + 1, !.audit = Append(@, "tool_call_failed")])

_call_mcp_tool(clients, server_name, tool, valid) ==
  IF server_name \notin clients THEN [NoneDid EXCEPT !.raised = "ValueError"]
  ELSE IF SecurityCall("validate_tool_call") # ""
  THEN [NoneDid EXCEPT !.raised = SecurityCall("validate_tool_call")]
  ELSE IF ~valid THEN [NoneDid EXCEPT !.raised = "ValueError"]
  ELSE IF SecurityCall("sanitize_log_data") # ""
  THEN [NoneDid EXCEPT !.raised = SecurityCall("sanitize_log_data")]
  ELSE IF SecurityCall("log_audit_event") # ""
  THEN [NoneDid EXCEPT !.raised = SecurityCall("log_audit_event")]
  ELSE Retry(tool, 0, [NoneDid EXCEPT !.audit = << "tool_call" >>])

CallMcpTool ==
  /\ Len(log) < MaxToolCalls
  /\ \E server_name \in Range(Servers), tool \in [1..max_retries -> {"ok", "fail"}], valid \in BOOLEAN :
       \E did \in {_call_mcp_tool(mcp_clients, server_name, tool, valid)} :
         log' = Append(log, [op |-> "_call_mcp_tool",
                             args |-> << server_name, tool, valid >>,
                             started |-> server_name \in mcp_clients,
                             outcome |-> did])
  /\ UNCHANGED << rate_limits, wall, error_count, mcp_clients >>
  /\ UNCHANGED managerVars

NextTool ==
  \/ StartMcpClients
  \/ CallMcpTool

SpecTool == Init /\ [][NextTool]_vars

(***************************************************************************)
(* Vocabulary of the properties.                                           *)
(***************************************************************************)
IsRollback == last.op = "execute_rollback"
HasResult == Len(last.result) = 1
Result == last.result[1]
Returned == IsRollback /\ HasResult /\ last.raised = ""

\* nothing was changed from outside since the last call ended
Untouched == last.at = edits

\* this step is a call of execute_rollback
RollbackStep == calls' = calls + 1 /\ last'.op = "execute_rollback"
StrategyStep(strategy) ==
  RollbackStep /\ Len(last'.result) = 1 /\ last'.result[1].strategy = strategy

StepNames(result) == [j \in 1..Len(result.steps) |-> result.steps[j].step]
Failed(result, j) == result.steps[j].status = "failure"
Commands(l) == {l.ops[j][1] : j \in 1..Len(l.ops)}
Position(l, cmd) == CHOOSE j \in 1..Len(l.ops) : l.ops[j][1] = cmd

RequiredSteps ==
  {"restore_files", "restore_dependencies", "restore_environment", "rollback_git"}

OnDisk(checkpoint_id) ==
  checkpoint_id \in DOMAIN disk /\ disk[checkpoint_id].json # << >>

(***************************************************************************)
(* C1: a RollbackResult has success = true only if every required step it *)
(* records (restore_files, restore_dependencies, restore_environment,      *)
(* rollback_git) has status success.  The code sets success from how the   *)
(* strategy routine ended, never from the steps.                           *)
(***************************************************************************)
C1_SuccessOnlyIfRequiredStepsSucceeded ==
  (IsRollback /\ HasResult /\ Result.success) =>
    \A j \in 1..Len(Result.steps) :
      Result.steps[j].step \in RequiredSteps => Result.steps[j].status = "success"

(***************************************************************************)
(* C2: every execute_rollback whose checkpoint was found appends its       *)
(* RollbackResult to rollback_history, also when the strategy routine      *)
(* aborts with an exception.  The code re-raises before the append.        *)
(***************************************************************************)
C2_FoundRollbackIsRecorded ==
  (IsRollback /\ HasResult) =>
    /\ rollback_history # << >>
    /\ rollback_history[Len(rollback_history)] = Result

(***************************************************************************)
(* C3: execute_rollback with an id that is neither in the index nor        *)
(* loadable from disk raises, appends nothing to the history, runs no      *)
(* step or command and leaves project, environment, index and storage      *)
(* unchanged.                                                              *)
(***************************************************************************)
C3_UnknownIdRaisesWithoutEffect ==
  [][(RollbackStep /\ last'.id \notin DOMAIN checkpoints /\ ~OnDisk(last'.id)) =>
       /\ last'.raised = "ValueError"
       /\ last'.result = << >>
       /\ last'.ops = << >>
       /\ rollback_history' = rollback_history
       /\ UNCHANGED << fs, env, gitHead, checkpoints, disk, guides >>]_vars

C3_Witness ==
  /\ IsRollback
  /\ last.raised = "ValueError"
  /\ checkpoints # << >>

(***************************************************************************)
(* C4: in an Immediate restore the first failing step stops the sequence:  *)
(* a failed step is the last step and the result has success = false.      *)
(* The code runs every step whatever the earlier ones returned.            *)
(***************************************************************************)
C4_ImmediateStopsAtFirstFailure ==
  (IsRollback /\ HasResult /\ Result.strategy = "immediate") =>
    \A j \in 1..Len(Result.steps) :
      Failed(Result, j) => (j = Len(Result.steps) /\ ~Result.success)

(***************************************************************************)
(* C5: an Immediate restore of a checkpoint with a recorded revision, all  *)
(* of whose commands succeed, leaves every captured file with the content  *)
(* it had at capture, returns success and records the four steps           *)
(* restore_files, restore_dependencies, restore_environment, rollback_git. *)
(* The code rewrites package.json from its parsed value and resets the     *)
(* tree to the commit.                                                     *)
(***************************************************************************)
AllCommandsSucceeded == \A j \in 1..Len(last.ops) : last.ops[j][3] = "ok"

C5_ImmediateRestoresCapturedContent ==
  (/\ Returned
   /\ Untouched
   /\ Result.strategy = "immediate"
   /\ AllCommandsSucceeded
   /\ last.id \in DOMAIN checkpoints
   /\ checkpoints[last.id].git_commit # NoCommit
   /\ last.id \in DOMAIN disk) =>
    /\ \A p \in Range(checkpoints[last.id].files_backup) : fs[p] = disk[last.id].files[p]
    /\ Result.success
    /\ StepNames(Result) = << "restore_files", "restore_dependencies",
                              "restore_environment", "rollback_git" >>

(***************************************************************************)
(* C6: a Graceful restore whose verification step failed has success =     *)
(* false.  The code reports success = true.                                *)
(***************************************************************************)
C6_FailedVerificationFailsRestore ==
  (IsRollback /\ HasResult /\ Result.strategy = "graceful") =>
    \A j \in 1..Len(Result.steps) :
      (Result.steps[j].step = "verify_rollback" /\ Failed(Result, j)) => ~Result.success

(***************************************************************************)
(* C7: when the safety checkpoint of a Graceful restore cannot be created, *)
(* the restore aborts with the project as it was when execute_rollback     *)
(* started: no file is copied back, no manifest written, no install run.   *)
(***************************************************************************)
SafetySnapshotFailed(l) == << "create_checkpoint", "", "fail" >> \in Range(l.ops)

C7_FailedSafetySnapshotAborts ==
  [][(RollbackStep /\ SafetySnapshotFailed(last')) =>
       /\ last'.raised # ""
       /\ Commands(last') \subseteq {"git status", "npm run build", "create_checkpoint"}
       /\ UNCHANGED << fs, env, gitHead >>]_vars

C7_Witness ==
  /\ IsRollback
  /\ Untouched
  /\ SafetySnapshotFailed(last)
  /\ last.id \in DOMAIN checkpoints
  /\ \E p \in Range(checkpoints[last.id].files_backup) :
       last.id \in DOMAIN disk /\ fs[p] # disk[last.id].files[p]

(***************************************************************************)
(* C8 as stated: a Graceful restore that runs through records the safety   *)
(* snapshot first, then the status check, then stop services, restore      *)
(* files, restore dependencies, verify, restart services.                  *)
(***************************************************************************)
C8_SnapshotBeforeStatusCheck ==
  (Returned /\ Result.strategy = "graceful") =>
    StepNames(Result) = << "current_backup", "status_check", "graceful_stop",
                           "restore_files", "restore_dependencies", "verify_rollback",
                           "restart_services" >>

(***************************************************************************)
(* C8 amended: a Graceful restore records the status check first and the   *)
(* safety snapshot second, then stop services, restore files, restore      *)
(* dependencies, verify, restart services; when the safety snapshot fails  *)
(* the status check is the only step.  The status check's commands (git   *)
(* status and, unless that raised, the build) are the only ones run before *)
(* the safety snapshot is taken.                                           *)
(***************************************************************************)
GracefulOrder ==
  << "status_check", "current_backup", "graceful_stop", "restore_files",
     "restore_dependencies", "verify_rollback", "restart_services" >>

C8_StatusCheckBeforeSnapshot ==
  (IsRollback /\ HasResult /\ Result.strategy = "graceful") =>
    /\ StepNames(Result) = IF last.raised = "" THEN GracefulOrder ELSE << "status_check" >>
    /\ last.ops[1][1] = "git status"
    /\ IF last.ops[1][3] = "timeout"
       THEN Position(last, "create_checkpoint") = 2
       ELSE last.ops[2][1] = "npm run build" /\ Position(last, "create_checkpoint") = 3

C8_Witness ==
  /\ Returned
  /\ Result.strategy = "graceful"
  /\ Len(Result.steps) = 7
  /\ Result.steps[2].ref # last.id

(***************************************************************************)
(* C9 as stated: a Partial restore modifies no manifest that               *)
(* dependencies_backup covers, runs no install and leaves the environment. *)
(***************************************************************************)
C9_PartialLeavesManifests ==
  [][StrategyStep("partial") =>
       /\ fs'["package.json"] = fs["package.json"]
       /\ fs'["requirements.txt"] = fs["requirements.txt"]
       /\ Commands(last') \cap {"npm install", "pip install"} = {}
       /\ env' = env]_vars

(***************************************************************************)
(* C9 amended: a Partial restore never modifies requirements.txt, runs no  *)
(* install, writes no manifest from dependencies_backup and leaves the     *)
(* environment unchanged; package.json, being a critical file, is copied   *)
(* back from the checkpoint's files when it was captured, and is the only  *)
(* manifest so changed.                                                    *)
(***************************************************************************)
C9_PartialLeavesDependenciesAndEnvironment ==
  [][StrategyStep("partial") =>
       /\ fs'["requirements.txt"] = fs["requirements.txt"]
       /\ Commands(last') \subseteq {"copy"}
       /\ env' = env
       /\ gitHead' = gitHead
       /\ fs'["package.json"] # fs["package.json"] =>
            /\ << "copy", "package.json", "ok" >> \in Range(last'.ops)
            /\ fs'["package.json"] = disk[last'.id].files["package.json"]]_vars

C9_Witness ==
  /\ Returned
  /\ Result.strategy = "partial"
  /\ << "copy", "package.json", "ok" >> \in Range(last.ops)
  /\ checkpoints[last.id].dependencies_backup.package_json # NoKey
  /\ checkpoints[last.id].dependencies_backup.requirements_txt # NoKey
  /\ checkpoints[last.id].environment_backup # << >>

(***************************************************************************)
(* C10: a Manual restore changes no project file, manifest, environment    *)
(* variable or VCS state and nothing in the checkpoint storage; it writes  *)
(* the guide and records the one step generate_guide, with status success, *)
(* exactly when the guide was written.                                     *)
(***************************************************************************)
GuideWritten(l) == << "write guide", "", "ok" >> \in Range(l.ops)

C10_ManualOnlyWritesGuide ==
  [][StrategyStep("manual") =>
       /\ UNCHANGED << fs, env, gitHead, gitTrees, disk >>
       /\ Commands(last') = {"write guide"}
       /\ \A id \in (DOMAIN guides') \ {last'.id} : id \in DOMAIN guides /\ guides'[id] = guides[id]
       /\ IF GuideWritten(last')
          THEN /\ StepNames(last'.result[1]) = << "generate_guide" >>
               /\ last'.result[1].steps[1].status = "success"
               /\ last'.id \in DOMAIN guides'
          ELSE /\ last'.result[1].steps = << >>
               /\ guides' = guides]_vars

C10_Witness ==
  /\ Returned
  /\ Result.strategy = "manual"
  /\ GuideWritten(last)
  /\ last.id \in DOMAIN guides
  /\ Untouched
  /\ fs # gitTrees[1]

(***************************************************************************)
(* Vocabulary of the store's properties.                                   *)
(***************************************************************************)
\* this step is a call of the named method
CallStep(op) == calls' = calls + 1 /\ last'.op = op
CaptureReturned == CallStep("create_checkpoint") /\ last'.raised = ""
CaptureFailed == CallStep("create_checkpoint") /\ last'.raised # ""

\* the record checkpoint.json of the id holds
FileRecord(dsk, checkpoint_id) == FromCheckpointJson(dsk[checkpoint_id].json[1])

\* the ids a manager can load, and what loading one yields: the index entry,
\* or checkpoint.json when the index does not hold the id
Loadable(index, dsk) == (DOMAIN index) \cup (DOMAIN dsk)
Load(index, dsk, checkpoint_id) ==
  IF checkpoint_id \in DOMAIN index THEN index[checkpoint_id]
  ELSE FileRecord(dsk, checkpoint_id)

(***************************************************************************)
(* C11: a checkpoint is write-once: no create_checkpoint and no            *)
(* execute_rollback changes the stored record or the backed-up files of a  *)
(* checkpoint that exists.  The code names the storage area by the second  *)
(* of the clock, so a capture in the same second writes into it.           *)
(***************************************************************************)
C11_CheckpointIsWriteOnce ==
  [][(CallStep("create_checkpoint") \/ CallStep("execute_rollback")) =>
       \A id \in DOMAIN disk : id \in DOMAIN disk' /\ disk'[id] = disk[id]]_vars

(***************************************************************************)
(* C12: every create_checkpoint that returns has an id no checkpoint in    *)
(* the index or in storage has.                                            *)
(***************************************************************************)
C12_CheckpointIdsAreDistinct ==
  [][CaptureReturned =>
       /\ last'.id \notin DOMAIN checkpoints
       /\ last'.id \notin DOMAIN disk]_vars

(***************************************************************************)
(* C13: the record create_checkpoint returns is what loading its id        *)
(* yields, from the index and from checkpoint.json, and what loading an id *)
(* yields stays the same through every later call but an eviction.         *)
(***************************************************************************)
C13_LoadYieldsCreatedRecord ==
  [][/\ CaptureReturned =>
          /\ last'.id \in DOMAIN checkpoints'
          /\ last'.id \in DOMAIN disk'
          /\ FileRecord(disk', last'.id) = checkpoints'[last'.id]
     /\ ~CallStep("cleanup_old_checkpoints") =>
          \A id \in Loadable(checkpoints, disk) :
            /\ id \in Loadable(checkpoints', disk')
            /\ Load(checkpoints', disk', id) = Load(checkpoints, disk, id)]_vars

(***************************************************************************)
(* C14: execute_rollback of an id the index does not hold but storage does *)
(* restores from the record of checkpoint.json and puts the id into the    *)
(* index; it raises not-found only when neither holds the id.              *)
(***************************************************************************)
C14_IndexMissFallsBackToStorage ==
  [][RollbackStep =>
       /\ (last'.id \notin DOMAIN checkpoints /\ OnDisk(last'.id)) =>
            /\ last'.raised # "ValueError"
            /\ last'.from_file
            /\ Len(last'.result) = 1
            /\ last'.result[1].checkpoint_name = FileRecord(disk, last'.id).name
            /\ last'.result[1].strategy = FileRecord(disk, last'.id).strategy
            /\ last'.id \in DOMAIN checkpoints'
       /\ last'.raised = "ValueError" =>
            (last'.id \notin DOMAIN checkpoints /\ ~OnDisk(last'.id))]_vars

C14_Witness ==
  /\ Returned
  /\ last.from_file
  /\ last.id \in DOMAIN checkpoints
  /\ last.id \in DOMAIN disk
  /\ checkpoints[last.id] = FileRecord(disk, last.id)
  /\ checkpoints[last.id].dependencies_backup.package_json # NoKey

(***************************************************************************)
(* C15: cleanup_old_checkpoints(keep_count = K), no deletion failing,      *)
(* leaves exactly min(K, total) of the checkpoints the store holds, the    *)
(* ones created last, and every other one is gone from the index and from  *)
(* storage.  The code evicts among the entries of the index only.          *)
(***************************************************************************)
NoDeletionFailed(l) == \A j \in 1..Len(l.ops) : l.ops[j][3] # "fail"
Min(a, b) == IF a < b THEN a ELSE b
CreatedAt(checkpoint_id) == Load(checkpoints, disk, checkpoint_id).created_at

C15_EvictionKeepsTheNewest ==
  [][(CallStep("cleanup_old_checkpoints") /\ NoDeletionFailed(last')) =>
       /\ Loadable(checkpoints', disk') \subseteq Loadable(checkpoints, disk)
       /\ Cardinality(Loadable(checkpoints', disk'))
            = Min(last'.id, Cardinality(Loadable(checkpoints, disk)))
       /\ \A kept \in Loadable(checkpoints', disk') :
            \A evicted \in Loadable(checkpoints, disk) \ Loadable(checkpoints', disk') :
              CreatedAt(evicted) < CreatedAt(kept)]_vars

(***************************************************************************)
(* C16: cleanup_old_checkpoints never raises, and every checkpoint of the  *)
(* index beyond the keep_count newest has its deletion attempted; each one *)
(* whose deletion does not fail is gone from the index and from storage,   *)
(* whatever happened to the others.                                        *)
(***************************************************************************)
Newer(index, checkpoint_id) ==
  {j \in DOMAIN index : index[j].created_at > index[checkpoint_id].created_at}

SelectedForEviction(index, keep_count) ==
  {i \in DOMAIN index : Cardinality(Newer(index, i)) >= keep_count}

C16_EvictionFailuresAreNotFatal ==
  [][CallStep("cleanup_old_checkpoints") =>
       /\ last'.raised = ""
       /\ \A i \in SelectedForEviction(checkpoints, last'.id) :
            \E j \in 1..Len(last'.ops) :
              /\ last'.ops[j][1] = "rmtree"
              /\ last'.ops[j][2] = i
              /\ last'.ops[j][3] # "fail" => (i \notin DOMAIN checkpoints' /\ i \notin DOMAIN disk')
              /\ last'.ops[j][3] = "fail" => (i \in DOMAIN checkpoints' /\ i \in DOMAIN disk')]_vars

C16_Witness ==
  /\ last.op = "cleanup_old_checkpoints"
  /\ \E j \in 1..Len(last.ops) : \E k \in (j + 1)..Len(last.ops) :
       /\ last.ops[j][3] = "fail"
       /\ last.ops[k][3] = "ok"
       /\ last.ops[j][2] \in DOMAIN disk
       /\ last.ops[k][2] \notin DOMAIN disk
       /\ last.ops[k][2] \notin DOMAIN checkpoints

(***************************************************************************)
(* C17: list_checkpoints returns one summary for every checkpoint the      *)
(* store holds, newest first by created_at, and changes neither the index  *)
(* nor storage.  The code lists the entries of the index only.             *)
(***************************************************************************)
C17_ListingCoversTheStore ==
  [][CallStep("list_checkpoints") =>
       /\ {last'.result[j].id : j \in 1..Len(last'.result)} = Loadable(checkpoints, disk)
       /\ Len(last'.result) = Cardinality(Loadable(checkpoints, disk))
       /\ \A j \in 1..(Len(last'.result) - 1) :
            last'.result[j].created_at >= last'.result[j + 1].created_at
       /\ UNCHANGED << checkpoints, disk >>]_vars

(***************************************************************************)
(* C18: a create_checkpoint that fails leaves no storage area of its own,  *)
(* adds nothing to the index and leaves the storage area and the index     *)
(* entry of every checkpoint created before as they were.                  *)
(***************************************************************************)
C18_FailedCaptureLeavesNoTrace ==
  [][CaptureFailed => (checkpoints' = checkpoints /\ disk' = disk)]_vars

(***************************************************************************)
(* C19: the files_backup of a captured checkpoint has one entry for every  *)
(* critical file path that exists in the project and none for a path that  *)
(* does not.                                                               *)
(***************************************************************************)
ExistingCriticalFiles == {p \in Range(critical_files) : fs[p] # NoFile}

C19_FilesBackupListsExistingFiles ==
  [][CaptureReturned =>
       /\ Len(checkpoints'[last'.id].files_backup) = Cardinality(ExistingCriticalFiles)
       /\ Range(checkpoints'[last'.id].files_backup) = ExistingCriticalFiles
       /\ \A p \in ExistingCriticalFiles : disk'[last'.id].files[p] = fs[p]]_vars

C19_Witness ==
  /\ last.op = "create_checkpoint"
  /\ last.raised = ""
  /\ Untouched
  /\ last.id \in DOMAIN checkpoints
  /\ Len(checkpoints[last.id].files_backup) = Cardinality(ExistingCriticalFiles)
  /\ Cardinality(ExistingCriticalFiles) \in 1..(Len(critical_files) - 1)

(***************************************************************************)
(* C20: an Immediate restore of a checkpoint whose files_backup is empty   *)
(* records restore_files with status success and no restored file, copies  *)
(* no file and returns with success = true.                                *)
(***************************************************************************)
C20_EmptyFilesBackupRestores ==
  (/\ IsRollback
   /\ HasResult
   /\ Result.strategy = "immediate"
   /\ last.id \in DOMAIN checkpoints
   /\ checkpoints[last.id].files_backup = << >>) =>
    /\ last.raised = ""
    /\ Result.success
    /\ Result.steps[1].step = "restore_files"
    /\ Result.steps[1].status = "success"
    /\ Result.steps[1].items = << >>
    /\ "copy" \notin Commands(last)

C20_Witness ==
  /\ Returned
  /\ Result.strategy = "immediate"
  /\ last.id \in DOMAIN checkpoints
  /\ checkpoints[last.id].files_backup = << >>
  /\ Untouched
  /\ fs["package.json"] # NoFile
  /\ Result.steps[1].items = << >>

(***************************************************************************)
(* C21: select_strategy follows its rules in order, the first match        *)
(* winning: Immediate for severity critical; otherwise Graceful for        *)
(* build_failure and dependency_conflict; otherwise Partial for            *)
(* test_failure and lint_warning; otherwise Manual when the context holds  *)
(* a true manual_intervention_required; otherwise Graceful.  Manual is     *)
(* never selected for one of the four named error types, and the call      *)
(* changes nothing of the project or the manager.                          *)
(***************************************************************************)
IsSelection == last.op = "select_strategy"
Selection == last.result[1]
NamedErrorTypes ==
  {"build_failure", "dependency_conflict", "test_failure", "lint_warning"}
ManualRequired(context) ==
  /\ "manual_intervention_required" \in DOMAIN context
  /\ context["manual_intervention_required"]

SelectionFollowsTheRules ==
  /\ Selection.severity = "critical" => Selection.strategy = "immediate"
  /\ Selection.severity # "critical" =>
       /\ Selection.error_type \in {"build_failure", "dependency_conflict"} =>
            Selection.strategy = "graceful"
       /\ Selection.error_type \in {"test_failure", "lint_warning"} =>
            Selection.strategy = "partial"
       /\ Selection.error_type \notin NamedErrorTypes =>
            /\ ManualRequired(Selection.context) => Selection.strategy = "manual"
            /\ ~ManualRequired(Selection.context) => Selection.strategy = "graceful"
  /\ Selection.strategy = "manual" => Selection.error_type \notin NamedErrorTypes

C21_SelectionFollowsTheRules ==
  [][last' # last =>
       /\ IsSelection' /\ SelectionFollowsTheRules'
       /\ UNCHANGED << fs, env, gitHead, gitTrees, checkpoints, disk, guides,
                       rollback_history >>]_vars

\* a named error type wins over a true manual_intervention_required
C21_Witness ==
  /\ IsSelection
  /\ Selection.severity = "high"
  /\ Selection.error_type = "test_failure"
  /\ ManualRequired(Selection.context)
  /\ Selection.strategy = "partial"

(***************************************************************************)
(* C22: the verification step of a Graceful restore lists as missing_files *)
(* exactly the paths of the checkpoint's files_backup that do not exist in *)
(* the project once the restore steps have run, and its status is success  *)
(* exactly when that list is empty and the build succeeded.  (When the     *)
(* build does not return, the step is a failure that carries no list.)     *)
(***************************************************************************)
VerifyBuild(l) == l.ops[Len(l.ops)]
Missing(files_backup, tree) == {p \in Range(files_backup) : tree[p] = NoFile}

C22_VerificationReportsMissingFiles ==
  [][StrategyStep("graceful") =>
       \A j \in 1..Len(last'.result[1].steps) :
         last'.result[1].steps[j].step = "verify_rollback" =>
           /\ VerifyBuild(last')[1] = "npm run build"
           /\ VerifyBuild(last')[3] # "timeout" =>
                /\ Range(last'.result[1].steps[j].items)
                     = Missing(Load(checkpoints, disk, last'.id).files_backup, fs')
                /\ Len(last'.result[1].steps[j].items)
                     = Cardinality(Range(last'.result[1].steps[j].items))
           /\ last'.result[1].steps[j].status = "success"
                <=> /\ Missing(Load(checkpoints, disk, last'.id).files_backup, fs') = {}
                    /\ VerifyBuild(last')[3] = "ok"]_vars

\* the build succeeded, a captured file is missing, the verification failed
C22_Witness ==
  /\ IsRollback /\ HasResult /\ Untouched
  /\ Result.strategy = "graceful"
  /\ \E j \in 1..Len(Result.steps) :
       /\ Result.steps[j].step = "verify_rollback"
       /\ Result.steps[j].status = "failure"
       /\ Result.steps[j].items # << >>
       /\ \A k \in 1..Len(Result.steps[j].items) : fs[Result.steps[j].items[k]] = NoFile
  /\ VerifyBuild(last)[3] = "ok"

(***************************************************************************)
(* C23: an install or a verification build that exceeds its timeout gives  *)
(* a step with status failure, and a restore holding such a step does not  *)
(* report success = true.  The first half holds: the step functions catch  *)
(* the timeout.  The code still reports success = true, as in C1 and C6.   *)
(***************************************************************************)
TimedOut(l, cmd) == \E k \in 1..Len(l.ops) : l.ops[k][1] = cmd /\ l.ops[k][3] = "timeout"
InstallTimedOut(l) == TimedOut(l, "npm install") \/ TimedOut(l, "pip install")
VerifyTimedOut(l) ==
  /\ \E j \in 1..Len(l.result[1].steps) : l.result[1].steps[j].step = "verify_rollback"
  /\ VerifyBuild(l)[3] = "timeout"
StepFailed(result, name) ==
  \E j \in 1..Len(result.steps) : result.steps[j].step = name /\ Failed(result, j)

TimedOutStepIsAFailure ==
  (IsRollback /\ HasResult) =>
    /\ InstallTimedOut(last) => StepFailed(Result, "restore_dependencies")
    /\ VerifyTimedOut(last) => StepFailed(Result, "verify_rollback")

C23_TimedOutStepFailsRestore ==
  /\ TimedOutStepIsAFailure
  /\ (IsRollback /\ HasResult /\ (InstallTimedOut(last) \/ VerifyTimedOut(last))) =>
       ~Result.success

(***************************************************************************)
(* C24: once the checkpoint is loaded, execute_rollback returns its        *)
(* RollbackResult normally whatever fails: every failure is data in a      *)
(* step, none leaves the call as an exception.  The step functions do      *)
(* catch their failures, but the safety checkpoint of Graceful and the     *)
(* guide of Manual are made outside any try block, and their failure       *)
(* leaves execute_rollback as an exception.                                *)
(***************************************************************************)
C24_LoadedRestoreReturnsNormally ==
  (IsRollback /\ HasResult) => last.raised = ""

\* what does hold: only those two failures leave the call as an exception
OnlySnapshotAndGuideRaise ==
  (IsRollback /\ HasResult /\ last.raised # "") =>
    \/ Result.strategy = "graceful" /\ ~StepFailed(Result, "restore_files")
         /\ "current_backup" \notin Range(StepNames(Result))
    \/ Result.strategy = "manual" /\ Result.steps = << >>

(***************************************************************************)
(* C25: rollback_history is append-only: over every call of                *)
(* create_checkpoint, execute_rollback, list_checkpoints and               *)
(* cleanup_old_checkpoints the history before the call is a prefix of the  *)
(* history after it, so no entry is ever removed or changed.               *)
(***************************************************************************)
IsPrefix(s, t) == Len(s) <= Len(t) /\ SubSeq(t, 1, Len(s)) = s

C25_HistoryIsAppendOnly ==
  [][calls' = calls + 1 => IsPrefix(rollback_history, rollback_history')]_vars

\* a second, different result was appended behind the first
C25_Witness ==
  /\ IsRollback
  /\ Len(rollback_history) = 2
  /\ rollback_history[1] # rollback_history[2]
  /\ rollback_history[2] = Result

(***************************************************************************)
(* C26: a restore can be invoked with a strategy other than the one the    *)
(* checkpoint records: the strategy recorded in the RollbackResult, and    *)
(* the steps run, are those of the strategy the caller passed when one was *)
(* passed, and those of the checkpoint's strategy field otherwise.  The    *)
(* code has no such parameter: execute_rollback(checkpoint_id, reason)     *)
(* takes a strategy passed after the id as the reason and runs the         *)
(* checkpoint's own strategy.                                              *)
(***************************************************************************)
Override(result) == result.reason \in RollbackStrategy

C26_OverrideDecidesTheStrategy ==
  [][(RollbackStep /\ Len(last'.result) = 1) =>
       last'.result[1].strategy =
         IF Override(last'.result[1]) THEN last'.result[1].reason
         ELSE Load(checkpoints, disk, last'.id).strategy]_vars

\* what the code does: the checkpoint's strategy, whatever the caller passed
CheckpointDecidesTheStrategy ==
  [][(RollbackStep /\ Len(last'.result) = 1) =>
       last'.result[1].strategy = Load(checkpoints, disk, last'.id).strategy]_vars

CapturedEnvironmentIsTheList ==
  (CallStep("create_checkpoint") /\ last'.raised = "") =>
    /\ DOMAIN checkpoints'[last'.id].environment_backup
         = {k \in Range(safe_env_keys) : env[k] # 0}
    /\ \A k \in DOMAIN checkpoints'[last'.id].environment_backup :
         checkpoints'[last'.id].environment_backup[k] = env[k]

RestoreSetsCapturedOnly ==
  RollbackStep =>
    \A k \in EnvVars :
      env'[k] # env[k] =>
        /\ Len(last'.result) = 1
        /\ k \in Range(safe_env_keys)
        /\ k \in DOMAIN Load(checkpoints, disk, last'.id).environment_backup
        /\ env'[k] = Load(checkpoints, disk, last'.id).environment_backup[k]

C28_OnlyAllowListedVariables ==
  [][CapturedEnvironmentIsTheList /\ RestoreSetsCapturedOnly]_vars

\* a variable off the list was changed after the capture and the restore left it
\* as it found it, while it did restore a listed one
C28_Witness ==
  /\ IsRollback /\ HasResult /\ edits = 1 /\ last.at = 1
  /\ Result.strategy = "immediate"
  /\ last.id \in DOMAIN checkpoints
  /\ "API_TOKEN" \notin DOMAIN checkpoints[last.id].environment_backup
  /\ "NODE_ENV" \in DOMAIN checkpoints[last.id].environment_backup
  /\ env["NODE_ENV"] = checkpoints[last.id].environment_backup["NODE_ENV"]
  /\ env["API_TOKEN"] = 0

(***************************************************************************)
(* C29: a failed revision lookup (git rev-parse failing, timing out or     *)
(* returning non-zero) does not fail create_checkpoint: the checkpoint it  *)
(* returns has an empty git_commit, where a successful lookup records      *)
(* HEAD; and an Immediate restore of a checkpoint with an empty git_commit *)
(* runs no git reset and records exactly three steps.                      *)
(***************************************************************************)
RevParse(l) == l.ops[1][3]

FailedLookupGivesEmptyRevision ==
  (CallStep("create_checkpoint") /\ last'.raised = "") =>
    /\ Len(last'.ops) = 1
    /\ checkpoints'[last'.id].git_commit
         = IF RevParse(last') = "ok" THEN gitHead ELSE NoCommit

EmptyRevisionIsNotReset ==
  (StrategyStep("immediate") /\ Load(checkpoints, disk, last'.id).git_commit = NoCommit) =>
    /\ "git reset --hard" \notin Commands(last')
    /\ StepNames(last'.result[1])
         = << "restore_files", "restore_dependencies", "restore_environment" >>
    /\ gitHead' = gitHead

C29_FailedLookupDegrades ==
  [][FailedLookupGivesEmptyRevision /\ EmptyRevisionIsNotReset]_vars

\* a capture whose lookup failed returned a checkpoint, and its Immediate restore
\* took three steps and ran no git command
C29_Witness ==
  /\ IsRollback /\ HasResult /\ Result.strategy = "immediate"
  /\ last.id \in DOMAIN checkpoints
  /\ checkpoints[last.id].git_commit = NoCommit
  /\ Len(Result.steps) = 3
  /\ "git reset --hard" \notin Commands(last)

\* the lookup timed out and the capture returned
CaptureSurvivesTimedOutLookup ==
  /\ last.op = "create_checkpoint" /\ last.raised = ""
  /\ RevParse(last) = "timeout"
  /\ checkpoints[last.id].git_commit = NoCommit

(***************************************************************************)
(* C30: the guide of a Manual restore is written inside the storage area   *)
(* of the checkpoint it describes, and it names the checkpoint id, the     *)
(* recorded revision and every path of files_backup.  The code writes it   *)
(* into rollback_dir itself, beside the checkpoint's directory.            *)
(***************************************************************************)
GuideStep(l) == l.result[1].steps[1]
Inside(path, dir) == IsPrefix(dir, path) /\ Len(dir) < Len(path)
ManualGuideStep == StrategyStep("manual") /\ GuideWritten(last')

GuideNamesTheCheckpoint ==
  ManualGuideStep =>
    /\ last'.id \in DOMAIN guides'
    /\ guides'[last'.id].id = last'.id
    /\ guides'[last'.id].git_commit = Load(checkpoints, disk, last'.id).git_commit
    /\ guides'[last'.id].files = Load(checkpoints, disk, last'.id).files_backup

GuideIsInside ==
  ManualGuideStep => Inside(GuideStep(last').items, checkpoint_path(last'.id))

C30_GuideInsideCheckpointStorage ==
  [][GuideNamesTheCheckpoint /\ GuideIsInside]_vars

(***************************************************************************)
(* C30 as amended: the guide of a Manual restore is written into           *)
(* rollback_dir itself, as manual_rollback_guide_<checkpoint id>.md,       *)
(* beside the checkpoint's storage area, which the restore leaves as it    *)
(* is; it names the checkpoint id, the recorded revision and every path of *)
(* files_backup.                                                           *)
(***************************************************************************)
GuideIsBeside ==
  ManualGuideStep =>
    /\ GuideStep(last').items
         = << "manual_rollback_guide_" \o IdString(last'.id) \o ".md" >>
    /\ ~Inside(GuideStep(last').items, checkpoint_path(last'.id))
    /\ disk' = disk

C30_GuideBesideCheckpointStorage ==
  [][GuideNamesTheCheckpoint /\ GuideIsBeside]_vars

\* a guide was written for a checkpoint that has files and a revision
C30_Witness ==
  /\ Returned
  /\ Result.strategy = "manual"
  /\ GuideWritten(last)
  /\ last.id \in DOMAIN guides /\ last.id \in DOMAIN disk
  /\ guides[last.id].files # << >>
  /\ guides[last.id].git_commit # NoCommit
  /\ Len(GuideStep(last).items) = 1

(***************************************************************************)
(* C31: of three successive check_rate_limit calls on a fresh              *)
(* SecurityConfig, each passing one instruction, the first two return True *)
(* and the third returns False, whatever the instructions.  The code's     *)
(* check_rate_limit needs user and action: a call passing one argument is  *)
(* a TypeError (and with both, ten calls a minute are admitted per key).   *)
(***************************************************************************)
OneArgument(j) == Len(log[j].args) = 1

C31_ThirdCallIsRefused ==
  (Len(log) = 3 /\ \A j \in 1..3 : log[j].op = "check_rate_limit" /\ OneArgument(j)) =>
    /\ log[1].outcome = "True"
    /\ log[2].outcome = "True"
    /\ log[3].outcome = "False"

(***************************************************************************)
(* C32: a Partial restore copies back only package.json, wrangler.toml,    *)
(* astro.config.mjs and src/workers/main.js: its restore_files step lists  *)
(* no other path, every other project file (package-lock.json and          *)
(* wrangler.jsonc among them, backed up or not) is left as it was, and its *)
(* verification runs no build.                                             *)
(***************************************************************************)
PartialFiles ==
  {"package.json", "wrangler.toml", "astro.config.mjs", "src/workers/main.js"}

C32_PartialCopiesCriticalFilesOnly ==
  [][StrategyStep("partial") =>
       /\ \A j \in 1..Len(last'.result[1].steps) :
            last'.result[1].steps[j].step = "restore_files" =>
              Range(last'.result[1].steps[j].items) \subseteq PartialFiles
       /\ \A p \in Paths \ PartialFiles : fs'[p] = fs[p]
       /\ Commands(last') \subseteq {"copy"}]_vars

\* package-lock.json was backed up, changed afterwards, and stays changed after a
\* Partial restore that copied package.json back
C32_Witness ==
  /\ Returned /\ edits = 1 /\ last.at = 1
  /\ Result.strategy = "partial"
  /\ last.id \in DOMAIN checkpoints /\ last.id \in DOMAIN disk
  /\ "package-lock.json" \in Range(checkpoints[last.id].files_backup)
  /\ fs["package-lock.json"] # disk[last.id].files["package-lock.json"]
  /\ << "copy", "package.json", "ok" >> \in Range(last.ops)
  /\ Result.steps[1].items # << >>

(***************************************************************************)
(* C33: the restore_files step writes only project paths that are keys of  *)
(* the checkpoint's files_backup, so a critical path that did not exist at *)
(* capture is never created, overwritten or deleted by it; restored_files  *)
(* is a subset of those keys; and every backed-up file is copied without   *)
(* regard to what the project holds, also when it already equals the       *)
(* backup.                                                                 *)
(***************************************************************************)
Copies(l) == {l.ops[j][2] : j \in {k \in 1..Len(l.ops) : l.ops[k][1] = "copy"}}
CopiedOk(l) == {l.ops[j][2] : j \in {k \in 1..Len(l.ops) : l.ops[k][1] = "copy"
                                                          /\ l.ops[k][3] = "ok"}}
Wanted(checkpoint, strategy) ==
  {p \in Range(checkpoint.files_backup) : strategy = "partial" => p \in PartialFiles}

RestoreFilesWritesBackedUpOnly ==
  (RollbackStep /\ Len(last'.result) = 1) =>
    /\ Copies(last') \subseteq Range(Load(checkpoints, disk, last'.id).files_backup)
    /\ \A j \in 1..Len(last'.result[1].steps) :
         last'.result[1].steps[j].step = "restore_files" =>
           Range(last'.result[1].steps[j].items)
             \subseteq Range(Load(checkpoints, disk, last'.id).files_backup)
    /\ StrategyStep("partial") =>
         \A p \in Paths \ Range(Load(checkpoints, disk, last'.id).files_backup) :
           fs'[p] = fs[p]

EveryBackedUpFileIsCopied ==
  (RollbackStep /\ Len(last'.result) = 1) =>
    \A j \in 1..Len(last'.result[1].steps) :
      (last'.result[1].steps[j].step = "restore_files"
         /\ last'.result[1].steps[j].status = "success") =>
        /\ Range(last'.result[1].steps[j].items)
             = Wanted(Load(checkpoints, disk, last'.id), last'.result[1].strategy)
        /\ CopiedOk(last') = Range(last'.result[1].steps[j].items)

C33_RestoreFilesCopiesTheBackup ==
  [][RestoreFilesWritesBackedUpOnly /\ EveryBackedUpFileIsCopied]_vars

\* what does hold: the files whose copy is still in the storage area are all
\* copied, whatever the project holds
EveryStoredFileIsCopied ==
  (RollbackStep /\ Len(last'.result) = 1) =>
    \A j \in 1..Len(last'.result[1].steps) :
      (last'.result[1].steps[j].step = "restore_files"
         /\ last'.result[1].steps[j].status = "success") =>
        Range(last'.result[1].steps[j].items)
          = {p \in Wanted(Load(checkpoints, disk, last'.id), last'.result[1].strategy) :
               last'.id \in DOMAIN disk /\ disk[last'.id].files[p] # NoFile}

StoredFilesAreCopied == [][EveryStoredFileIsCopied]_vars

(***************************************************************************)
(* C34: within a restore an install starts only after its manifest has     *)
(* been rewritten from the checkpoint: npm install never runs before       *)
(* package.json is written and pip install never before requirements.txt   *)
(* is, each install directly follows its write, and no install runs for a  *)
(* manifest the checkpoint's dependencies_backup does not hold.            *)
(***************************************************************************)
InstallFollowsWrite(l, install, manifest) ==
  \A k \in 1..Len(l.ops) :
    l.ops[k][1] = install =>
      /\ k > 1
      /\ l.ops[k - 1] = << "write", manifest, "ok" >>

C34_InstallAfterManifest ==
  [][(RollbackStep /\ Len(last'.result) = 1) =>
       /\ InstallFollowsWrite(last', "npm install", "package.json")
       /\ InstallFollowsWrite(last', "pip install", "requirements.txt")
       /\ "npm install" \in Commands(last') =>
            Load(checkpoints, disk, last'.id).dependencies_backup.package_json # NoKey
       /\ "pip install" \in Commands(last') =>
            Load(checkpoints, disk, last'.id).dependencies_backup.requirements_txt # NoKey]_vars

\* the restore of a checkpoint without package.json wrote requirements.txt and
\* then ran pip install, and no npm install
C34_Witness ==
  /\ Returned
  /\ "pip install" \in Commands(last)
  /\ Position(last, "pip install") > 1
  /\ "npm install" \notin Commands(last)
  /\ last.id \in DOMAIN checkpoints
  /\ checkpoints[last.id].dependencies_backup.package_json = NoKey
  /\ checkpoints[last.id].dependencies_backup.requirements_txt # NoKey
  /\ StepNames(Result)[2] = "restore_dependencies"

(***************************************************************************)
(* C35: when npm install fails or times out inside restore_dependencies,   *)
(* the step is a failure, package.json has already been overwritten from   *)
(* the checkpoint, and requirements.txt is neither rewritten nor           *)
(* reinstalled, whether or not the checkpoint holds a requirements_txt     *)
(* backup: the two manifests are not restored together.                    *)
(***************************************************************************)
NpmInstallFailed(l) ==
  \E k \in 1..Len(l.ops) : l.ops[k][1] = "npm install" /\ l.ops[k][3] # "ok"
GitResetDone(l) == << "git reset --hard", "", "ok" >> \in Range(l.ops)

C35_FailedNpmInstallSkipsRequirements ==
  [][(RollbackStep /\ Len(last'.result) = 1 /\ NpmInstallFailed(last')) =>
       /\ StepFailed(last'.result[1], "restore_dependencies")
       /\ << "write", "package.json", "ok" >> \in Range(last'.ops)
       /\ << "write", "requirements.txt", "ok" >> \notin Range(last'.ops)
       /\ "pip install" \notin Commands(last')
       /\ ~GitResetDone(last') =>
            /\ fs'["package.json"]
                 = JsonDump(Load(checkpoints, disk, last'.id).dependencies_backup.package_json)
            /\ fs'["requirements.txt"] = fs["requirements.txt"]]_vars

\* npm install timed out; the checkpoint holds a requirements_txt backup, the
\* project's requirements.txt was changed after the capture and is still changed
C35_Witness ==
  /\ Returned /\ edits = 1 /\ last.at = 1
  /\ TimedOut(last, "npm install")
  /\ last.id \in DOMAIN checkpoints
  /\ checkpoints[last.id].dependencies_backup.requirements_txt # NoKey
  /\ fs["requirements.txt"] # checkpoints[last.id].dependencies_backup.requirements_txt
  /\ fs["package.json"] = JsonDump(checkpoints[last.id].dependencies_backup.package_json)

(***************************************************************************)
(* C36: after any sequence of create_checkpoint (returning or raising),    *)
(* execute_rollback and cleanup_old_checkpoints, every checkpoint id in    *)
(* the index has a storage area on disk that holds checkpoint.json and the *)
(* files it backed up.  A capture that raises removes the directory named  *)
(* after the second it ran in, which an indexed checkpoint of the same     *)
(* second owns (C12).                                                      *)
(***************************************************************************)
C36_IndexedCheckpointsAreStored ==
  \A checkpoint_id \in DOMAIN checkpoints :
    /\ OnDisk(checkpoint_id)
    /\ \A p \in Range(checkpoints[checkpoint_id].files_backup) :
         disk[checkpoint_id].files[p] # NoFile

(***************************************************************************)
(* C37: every Graceful restore that gets past its safety snapshot adds     *)
(* exactly one new checkpoint to the index, named before_rollback, with    *)
(* strategy immediate, that captured the project as it was before any file *)
(* was restored; its id is the one recorded in the current_backup step and *)
(* differs from the id of the checkpoint being restored.  The snapshot of  *)
(* a restore that runs in the second its target was created in gets the    *)
(* target's id (C12) and replaces it.                                      *)
(***************************************************************************)
PastSnapshot(l) ==
  /\ Len(l.result) = 1
  /\ Len(l.result[1].steps) >= 2
  /\ l.result[1].steps[2].step = "current_backup"
SnapshotId(l) == l.result[1].steps[2].ref

C37_SafetySnapshotIsANewCheckpoint ==
  [][(RollbackStep /\ PastSnapshot(last')) =>
       /\ SnapshotId(last') \notin DOMAIN checkpoints
       /\ SnapshotId(last') # last'.id
       /\ DOMAIN checkpoints' = (DOMAIN checkpoints) \cup {SnapshotId(last')}
       /\ \A id \in DOMAIN checkpoints : checkpoints'[id] = checkpoints[id]
       /\ checkpoints'[SnapshotId(last')].name = "before_rollback"
       /\ checkpoints'[SnapshotId(last')].strategy = "immediate"
       /\ checkpoints'[SnapshotId(last')].files_backup = _backup_critical_files(fs)
       /\ checkpoints'[SnapshotId(last')].dependencies_backup = _backup_dependencies(fs)]_vars

(***************************************************************************)
(* C38: in execute_instruction an instruction that passed validation and   *)
(* rate limiting is parsed; the checkpoint is created after validation,    *)
(* rate limiting and parsing and before the task sequence; a rollback is   *)
(* attempted only for an error whose message holds a critical pattern, it  *)
(* targets the checkpoint created in the same invocation, and an           *)
(* invocation that created no checkpoint restores none.  The method calls  *)
(* check_rate_limit with one argument (C31): TypeError leaves it before    *)
(* anything is parsed.                                                     *)
(***************************************************************************)
Refused(i) ==
  /\ i.raised = "ValueError"
  /\ i.reached \in {<< "validate_instruction" >>,
                    << "validate_instruction", "check_rate_limit" >>}

CheckpointAfterParsing(i) ==
  /\ ~Refused(i) => /\ Len(i.reached) >= 3
                     /\ SubSeq(i.reached, 1, 3)
                          = << "validate_instruction", "check_rate_limit", "_parse_instruction" >>
  /\ i.checkpoint # << >> =>
       /\ Len(i.reached) >= 4
       /\ i.reached[4] = "create_checkpoint"
  /\ "_execute_task_sequence" \in Range(i.reached) => i.checkpoint # << >>

RollbackToOwnCheckpoint(i) ==
  i.rollback # << >> => /\ _should_auto_rollback(i.handled)
                        /\ i.rollback = i.checkpoint

C38_CheckpointThenActionsThenRollback ==
  \A j \in 1..Len(log) :
    log[j].op = "execute_instruction" =>
      /\ CheckpointAfterParsing(log[j].outcome)
      /\ RollbackToOwnCheckpoint(log[j].outcome)

(***************************************************************************)
(* C39: _call_mcp_tool makes no attempt and raises ValueError when the     *)
(* client is not started or the arguments fail validation; otherwise it    *)
(* makes at most max_retries attempts, stops at and returns the first      *)
(* successful one, sleeps 2^attempt seconds after every failed attempt but *)
(* the last, and when all failed logs tool_call_failed once and raises.    *)
(* The method validates its arguments with a method SecurityConfig does    *)
(* not define: with the client started it makes no attempt at all.         *)
(***************************************************************************)
FirstOk(tool) ==
  IF \E k \in 1..max_retries : tool[k] = "ok"
  THEN CHOOSE k \in 1..max_retries :
         tool[k] = "ok" /\ \A j \in 1..(k - 1) : tool[j] # "ok"
  ELSE 0

Times(audit, event) == Cardinality({k \in 1..Len(audit) : audit[k] = event})

RetriedAsSpecified(tool, did) ==
  IF FirstOk(tool) > 0
  THEN /\ did.attempts = FirstOk(tool)
       /\ did.returned /\ did.raised = ""
       /\ did.sleeps = [k \in 1..(FirstOk(tool) - 1) |-> 2 ^ (k - 1)]
       /\ Times(did.audit, "tool_call_failed") = 0
  ELSE /\ did.attempts = max_retries
       /\ ~did.returned /\ did.raised = "RuntimeError"
       /\ did.sleeps = [k \in 1..(max_retries - 1) |-> 2 ^ (k - 1)]
       /\ Times(did.audit, "tool_call_failed") = 1

NotAttempted(did) == did.attempts = 0 /\ did.raised = "ValueError" /\ did.sleeps = << >>

C39_ToolCallsAreRetried ==
  \A j \in 1..Len(log) :
    log[j].op = "_call_mcp_tool" =>
      /\ ~log[j].started => NotAttempted(log[j].outcome)
      /\ log[j].started =>
           \/ NotAttempted(log[j].outcome)
           \/ RetriedAsSpecified(log[j].args[2], log[j].outcome)

(***************************************************************************)
(* C40: every handle_error adds exactly one to the count of the error's    *)
(* type and leaves the other counts alone; it returns action retry with    *)
(* consecutive_failures 1 and 2 for the first two errors of a type and     *)
(* triggers the fallback from the third on; only reset_error_count lowers  *)
(* a count.  handle_error records the error first, and recording it        *)
(* raises before anything is counted.                                      *)
(***************************************************************************)
HandleErrorStep ==
  /\ Len(log') = Len(log) + 1
  /\ log'[Len(log')].op = "handle_error"

Counted(error_type, outcome) ==
  /\ error_count' = Put(error_count, error_type, CountOf(error_count, error_type) + 1)
  /\ outcome.raised = ""
  /\ Len(outcome.returned) = 1
  /\ IF CountOf(error_count, error_type) + 1 < max_consecutive_failures
     THEN /\ outcome.returned[1].action = "retry"
          /\ outcome.returned[1].consecutive_failures = CountOf(error_count, error_type) + 1
     ELSE outcome.returned[1].type \in {"fallback_triggered", "fallback_failed"}

C40_EveryErrorIsCounted ==
  [][HandleErrorStep =>
       Counted(log'[Len(log')].args[1], log'[Len(log')].outcome)]_vars

====
